---- MODULE Spec2Model ----
(***************************************************************************)
(* Layout and routing engine of build_flowchart_smart.py: the decision     *)
(* router, column assignment, node placement, the orthogonal connector     *)
(* router and the render pipeline that runs them.                          *)
(*                                                                         *)
(* Node ids are the integers 1..n in declaration order (the insertion      *)
(* order of the Python dict `nodes`); Undeclared is an id that no node     *)
(* line declared.  Every schema of the model declares each id once, so     *)
(* the edges of a node follow its declaration: the edge list is grouped by *)
(* source in declaration order, and start_ids lists the start nodes in     *)
(* declaration order.                                                      *)
(***************************************************************************)
EXTENDS Integers, Sequences, FiniteSets, TLC

VARIABLES
    kind,        \* nodes: id -> kind, DOMAIN kind = 1..n          (parse result)
    edges,       \* ordered list of <<u, v, label>>                (parse result)
    start_ids,   \* ordered list of ids declared by a Start line   (parse result)
    route_pref,  \* set of <<u, v, pref>>: the dict route_pref
    col,         \* assign_columns: col, None when not yet set
    q,           \* assign_columns: the deque q
    indeg,       \* assign_columns: indeg
    iter,        \* assign_columns: iterations of the while loop so far, modulo 2
    columns,     \* the dict assign_columns returns
    pc,          \* position in the pipeline
    by_col,      \* render: what order_within_columns returned, column -> ids
    fixed_order_cols, \* render: the chunks of each column, at index column + 1
    cfg,         \* render: the sizes of cfg after the scaling
    shapes,      \* render: id_to_shape, id -> <<left, top, width, height>>
    used_h,      \* render: lanes <<y, x low, x high>>
    used_v,      \* render: lanes <<x, y low, y high>>
    segs,        \* the connectors drawn, in drawing order
    dest_entry_lane, \* render: set of <<v, attach point, lane point>>
    ei,          \* render: index of the next edge of the loop over edges
    call,        \* arguments of the last call of route_orthogonal_detour
    ret,         \* what that call returned
    printed,     \* the note of the early return was printed
    saved,       \* prs.save was called
    result,      \* what render returned
    nodes,       \* parser: the dict nodes, its entries in insertion order
    current_id,  \* parser: id of the last node line, None before the first
    current_kind,\* parser: kind of the last node line, "none" before the first
    consumed,    \* parser: number of lines read so far
    lines,       \* parser: the lines of the schema text, when it is given whole
    human_flow,  \* bullet engine: what parse_bullets_to_human_flow returned
    flow_spec,   \* bullet engine: what to_flow_spec returned
    connectors   \* bullet engine: the connectors generated

schema == <<kind, edges, start_ids>>
colvars == <<route_pref, col, q, indeg, iter, columns>>
layout == <<by_col, fixed_order_cols, cfg>>
drawing == <<layout, shapes, used_h, used_v, segs, dest_entry_lane, ei, call, ret,
             printed, saved, result>>
flow == <<human_flow, flow_spec, connectors>>
parser == <<nodes, current_id, current_kind, consumed, lines, flow>>
vars == <<schema, parser, colvars, pc, drawing>>

-----------------------------------------------------------------------------
(* Bounds of the explored schemas *)

MaxNodes == 3
MaxEdges == 3
WideNodes == 4
WideEdges == 3
WideDecisions == 1
LoopNodes == 2
LoopEdges == 2
MaxQueue == 6
MaxCol == 3
MaxPops == 16

(* Python's None in col *)
None == -1

(* an id that no node line declares *)
Undeclared == 0

Kinds == {"start", "decision", "action"}

(* Labels: "" is the label of a `Leads to` edge *)
Labels == {"", "No", "Yes"}

(* Python's string order on the labels of the model: "" < "No" < "Yes" *)
LabelRank(l) == CASE l = "" -> 0 [] l = "No" -> 1 [] l = "Yes" -> 2

(* mutant: the greatest element *)
MaxOf(S) == CHOOSE x \in S : \A y \in S : x >= y

Min(S) == CHOOSE x \in S : \A y \in S : x <= y

-----------------------------------------------------------------------------
(* plan_decision_routes *)

(* out_by_src[u]: the (v, lbl) of u's edges, in edge order *)
RECURSIVE OutBySrc(_, _)
OutBySrc(es, u) ==
    IF es = <<>> THEN <<>>
    ELSE LET e == Head(es)
             rest == OutBySrc(Tail(es), u)
         IN IF e[1] = u THEN <<<<e[2], e[3]>>>> \o rest ELSE rest

(* mutant: the labels sorted without "Yes" first *)
KeyLessPlain(a, b) == LabelRank(a[2]) < LabelRank(b[2])

(* the sort key (t[1] != "Yes", t[1]) compared as Python compares tuples *)
KeyLess(a, b) ==
    LET na == IF a[2] # "Yes" THEN 1 ELSE 0
        nb == IF b[2] # "Yes" THEN 1 ELSE 0
    IN na < nb \/ (na = nb /\ LabelRank(a[2]) < LabelRank(b[2]))

(* stable insertion: x goes after every element whose key is not greater *)
RECURSIVE InsertStable(_, _)
InsertStable(x, s) ==
    IF s = <<>> THEN <<x>>
    ELSE IF KeyLess(x, Head(s)) THEN <<x>> \o s
         ELSE <<Head(s)>> \o InsertStable(x, Tail(s))

(* sorted(outs, key=...) : Python's sort is stable *)
RECURSIVE SortedOuts(_)
SortedOuts(outs) ==
    IF outs = <<>> THEN <<>>
    ELSE InsertStable(outs[Len(outs)], SortedOuts(SubSeq(outs, 1, Len(outs) - 1)))

(* route_pref[(u, v)] = p : a dict assignment replaces the pair's entry *)
SetPref(rp, u, v, p) == {t \in rp : ~(t[1] = u /\ t[2] = v)} \cup {<<u, v, p>>}

(* the body of the loop over nodes, for one decision node *)
PlanOne(rp, nid, es) ==
    LET outs == SortedOuts(OutBySrc(es, nid))
    IN IF outs = <<>> THEN rp
       ELSE IF Len(outs) = 1 THEN SetPref(rp, nid, outs[1][1], "down")
       ELSE SetPref(SetPref(rp, nid, outs[1][1], "right"), nid, outs[2][1], "down")

RECURSIVE PlanUpTo(_, _, _)
PlanUpTo(k, kd, es) ==
    IF k = 0 THEN {}
    ELSE LET rp == PlanUpTo(k - 1, kd, es)
         IN IF kd[k] = "decision" THEN PlanOne(rp, k, es) ELSE rp

plan_decision_routes(kd, es) == PlanUpTo(Len(kd), kd, es)

(* route_pref.get((u, v)) *)
PrefOf(rp, u, v) ==
    IF \E t \in rp : t[1] = u /\ t[2] = v
    THEN (CHOOSE t \in rp : t[1] = u /\ t[2] = v)[3]
    ELSE "none"

-----------------------------------------------------------------------------
(* assign_columns *)

(* mutant: only the first start id is seeded *)
StartListFirst(kd, starts) == IF starts # <<>> THEN <<Head(starts)>> ELSE <<1>>

(* start_ids or [next(iter(nodes))] *)
StartList(kd, starts) == IF starts # <<>> THEN starts ELSE <<1>>

(* adj[u]: the destinations of u's edges, in edge order *)
RECURSIVE Adj(_, _)
Adj(es, u) ==
    IF es = <<>> THEN <<>>
    ELSE LET rest == Adj(Tail(es), u)
         IN IF Head(es)[1] = u THEN <<Head(es)[2]>> \o rest ELSE rest

(* indeg[v] after the loop over the edges; a defaultdict, so 0 elsewhere *)
InDegree(kd, es) ==
    [v \in 0..Len(kd) |-> Cardinality({i \in 1..Len(es) : es[i][2] = v})]

(* for s in start_ids...: col[s] = 0; q.append(s) *)
AssignInit(kd, es, starts) ==
    LET sl == StartList(kd, starts)
    IN [col   |-> [n \in 1..Len(kd) |->
                     IF \E i \in 1..Len(sl) : sl[i] = n THEN 0 ELSE None],
        q     |-> sl,
        indeg |-> InDegree(kd, es),
        err   |-> FALSE]

(* indeg[v] -= 1.  The counter is only ever compared with <= 0, so once it is *)
(* negative the model keeps it as it is: the loop's states stay finitely many *)
DecIndeg(n) == IF n < 0 THEN n ELSE n - 1

(* mutant: every edge leaving a decision shifts right *)
CandidateAnyBranch(kd, rp, u, v, cu) ==
    IF kd[u] = "decision" THEN cu + 1 ELSE cu

(* dv = cu + 1 if (nodes[u]["kind"] == "decision" and pref == "right") else cu *)
Candidate(kd, rp, u, v, cu) ==
    IF kd[u] = "decision" /\ PrefOf(rp, u, v) = "right" THEN cu + 1 ELSE cu

(* mutant: the last candidate wins *)
RaiseLast(c, dv) == dv

(* if col[v] is None or dv > col[v]: col[v] = dv *)
Raise(c, dv) == IF c = None \/ dv > c THEN dv ELSE c

(* the for loop over adj[u]; col[v] of an undeclared v raises KeyError *)
RECURSIVE Relax(_, _, _, _, _, _)
Relax(st, kd, rp, u, cu, vs) ==
    IF vs = <<>> \/ st.err THEN st
    ELSE LET v == Head(vs)
         IN IF v \notin 1..Len(kd) THEN [st EXCEPT !.err = TRUE]
            ELSE LET c2 == Raise(st.col[v], Candidate(kd, rp, u, v, cu))
                     d2 == DecIndeg(st.indeg[v])
                     st2 == [col   |-> [st.col EXCEPT ![v] = c2],
                             q     |-> IF d2 <= 0 THEN Append(st.q, v) ELSE st.q,
                             indeg |-> [st.indeg EXCEPT ![v] = d2],
                             err   |-> FALSE]
                 IN Relax(st2, kd, rp, u, cu, Tail(vs))

(* one iteration of `while q:` *)
AssignIter(st, kd, es, rp) ==
    LET u == Head(st.q)
    IN Relax([st EXCEPT !.q = Tail(st.q)], kd, rp, u, st.col[u], Adj(es, u))

(* mutant: the normalisation without the `or base` for None *)
NormalizeNoDefault(c) ==
    LET base == Min({c[k] : k \in {j \in DOMAIN c : c[j] # None}})
    IN [k \in DOMAIN c |-> c[k] - base]

(* base = min(...); col[k] = (col[k] or base) - base *)
Normalize(c) ==
    LET base == Min({c[k] : k \in {j \in DOMAIN c : c[j] # None}})
    IN [k \in DOMAIN c |-> (IF c[k] = None \/ c[k] = 0 THEN base ELSE c[k]) - base]

(* the while loop, run for at most `fuel` iterations *)
RECURSIVE RunLoop(_, _, _, _, _)
RunLoop(st, kd, es, rp, fuel) ==
    IF st.err \/ st.q = <<>> \/ fuel = 0 THEN st
    ELSE RunLoop(AssignIter(st, kd, es, rp), kd, es, rp, fuel - 1)

-----------------------------------------------------------------------------
(* The connector router.  Lengths are EMU, Inches(x) = int(x * 914400);     *)
(* a point is <<x, y>>, a rect <<left, top, width, height>>, a lane         *)
(* <<fixed coordinate, low, high>>.                                         *)

(* PAD = Inches(0.05) *)
PAD == 45720

(* Inches(0.12), the distance of a gutter line from a box side *)
GutterOffset == 109728

Lo(a, b) == IF a <= b THEN a ELSE b
Hi(a, b) == IF a <= b THEN b ELSE a

(* the drawing a render pass builds: the connectors in drawing order and   *)
(* the two lane sets; `edge` is the edge being drawn, `arrival` tells that *)
(* the segments are final approach segments                                *)
NoSegs == [segs |-> <<>>, used_h |-> {}, used_v |-> {}, edge |-> 0, arrival |-> FALSE]

(* mutant: every connector gets an arrowhead *)
add_seg_arrow(dr, x1, y1, x2, y2, end) ==
    [dr EXCEPT !.segs = Append(dr.segs, [edge |-> dr.edge, arrival |-> dr.arrival,
                                         x1 |-> x1, y1 |-> y1, x2 |-> x2, y2 |-> y2,
                                         end |-> TRUE])]

(* add_seg: one connector from (x1, y1) to (x2, y2), with an arrowhead if end *)
add_seg(dr, x1, y1, x2, y2, end) ==
    [dr EXCEPT !.segs = Append(dr.segs, [edge |-> dr.edge, arrival |-> dr.arrival,
                                         x1 |-> x1, y1 |-> y1, x2 |-> x2, y2 |-> y2,
                                         end |-> end])]

(* add_seg_registered: draw, then register a vertical or horizontal lane *)
add_seg_registered(dr, x1, y1, x2, y2, end) ==
    LET d2 == add_seg(dr, x1, y1, x2, y2, end)
    IN IF x1 = x2 THEN [d2 EXCEPT !.used_v = @ \cup {<<x1, Lo(y1, y2), Hi(y1, y2)>>}]
       ELSE IF y1 = y2 THEN [d2 EXCEPT !.used_h = @ \cup {<<y1, Lo(x1, x2), Hi(x1, x2)>>}]
       ELSE d2

(* mutant: the ranges compared as closed intervals *)
segment_hits_rect_closed(x1, y1, x2, y2, rect, pad) ==
    LET nx == rect[1] - pad
        ny == rect[2] - pad
        nw == rect[3] + 2 * pad
        nh == rect[4] + 2 * pad
    IN IF x1 = x2
       THEN (nx <= x1 /\ x1 <= nx + nw)
            /\ ~(ny + nh < Lo(y1, y2) \/ ny > Hi(y1, y2))
       ELSE IF y1 = y2
       THEN (ny <= y1 /\ y1 <= ny + nh)
            /\ ~(nx + nw < Lo(x1, x2) \/ nx > Hi(x1, x2))
       ELSE TRUE

segment_hits_rect(x1, y1, x2, y2, rect, pad) ==
    LET nx == rect[1] - pad
        ny == rect[2] - pad
        nw == rect[3] + 2 * pad
        nh == rect[4] + 2 * pad
    IN IF x1 = x2
       THEN (nx <= x1 /\ x1 <= nx + nw)
            /\ ~(ny + nh <= Lo(y1, y2) \/ ny >= Hi(y1, y2))
       ELSE IF y1 = y2
       THEN (ny <= y1 /\ y1 <= ny + nh)
            /\ ~(nx + nw <= Lo(x1, x2) \/ nx >= Hi(x1, x2))
       ELSE TRUE

(* mutant: no obstacle test *)
path_always_clear(a, b, rects, pad) == TRUE

path_clear(a, b, rects, pad) ==
    \A r \in rects : ~segment_hits_rect(a[1], a[2], b[1], b[2], r, pad)

(* the closure lane_free of route_orthogonal_detour *)
lane_free(a, b, uh, uv, ignore_lanes) ==
    IF ignore_lanes THEN TRUE
    ELSE IF a[1] = b[1]
    THEN ~\E l \in uv : l[1] = a[1]
                        /\ ~(l[3] <= Lo(a[2], b[2]) \/ l[2] >= Hi(a[2], b[2]))
    ELSE IF a[2] = b[2]
    THEN ~\E l \in uh : l[1] = a[2]
                        /\ ~(l[3] <= Lo(a[1], b[1]) \/ l[2] >= Hi(a[1], b[1]))
    ELSE TRUE

(* a candidate route a -> b -> c is accepted *)
Clear2(a, b, c, rects, uh, uv, ig) ==
    /\ path_clear(a, b, rects, PAD) /\ path_clear(b, c, rects, PAD)
    /\ lane_free(a, b, uh, uv, ig) /\ lane_free(b, c, uh, uv, ig)

(* a candidate route a -> b -> c -> d is accepted *)
Clear3(a, b, c, d, rects, uh, uv, ig) ==
    /\ path_clear(a, b, rects, PAD) /\ path_clear(b, c, rects, PAD)
    /\ path_clear(c, d, rects, PAD)
    /\ lane_free(a, b, uh, uv, ig) /\ lane_free(b, c, uh, uv, ig)
    /\ lane_free(c, d, uh, uv, ig)

Draw2(dr, a, b, c) ==
    add_seg_registered(add_seg_registered(dr, a[1], a[2], b[1], b[2], FALSE),
                       b[1], b[2], c[1], c[2], TRUE)

Draw3(dr, a, b, c, d) ==
    add_seg_registered(
        add_seg_registered(add_seg_registered(dr, a[1], a[2], b[1], b[2], FALSE),
                           b[1], b[2], c[1], c[2], FALSE),
        c[1], c[2], d[1], d[2], TRUE)

(* route_orthogonal_detour: the drawing after the call and the value returned. *)
(* The lanes tested are those registered before the call: every test of a      *)
(* candidate precedes the first add_seg_registered.                            *)
route_orthogonal_detour(dr, p1, p2, rects_all, exclude_rects, ignore_lanes) ==
    LET rects == rects_all \ exclude_rects
        uh == dr.used_h
        uv == dr.used_v
        elbow1 == <<p2[1], p1[2]>>
        elbow2 == <<p1[1], p2[2]>>
        xs == {r[1] - GutterOffset : r \in rects}
                \cup {r[1] + r[3] + GutterOffset : r \in rects}
        ys == {r[2] - GutterOffset : r \in rects}
                \cup {r[2] + r[4] + GutterOffset : r \in rects}
        okY == {yg \in ys : Clear3(p1, <<p1[1], yg>>, <<p2[1], yg>>, p2,
                                   rects, uh, uv, ignore_lanes)}
        okX == {xg \in xs : Clear3(p1, <<xg, p1[2]>>, <<xg, p2[2]>>, p2,
                                   rects, uh, uv, ignore_lanes)}
    IN IF Clear2(p1, elbow1, p2, rects, uh, uv, ignore_lanes)
       THEN [dr |-> Draw2(dr, p1, elbow1, p2), ret |-> TRUE]
       ELSE IF Clear2(p1, elbow2, p2, rects, uh, uv, ignore_lanes)
       THEN [dr |-> Draw2(dr, p1, elbow2, p2), ret |-> TRUE]
       ELSE IF okY # {}
       THEN LET yg == Min(okY)
            IN [dr |-> Draw3(dr, p1, <<p1[1], yg>>, <<p2[1], yg>>, p2), ret |-> TRUE]
       ELSE IF okX # {}
       THEN LET xg == Min(okX)
            IN [dr |-> Draw3(dr, p1, <<xg, p1[2]>>, <<xg, p2[2]>>, p2), ret |-> TRUE]
       ELSE [dr |-> add_seg_registered(dr, p1[1], p1[2], p2[1], p2[2], TRUE),
             ret |-> FALSE]

-----------------------------------------------------------------------------
(* order_within_columns *)

RECURSIVE TopoRelax(_, _, _)
TopoRelax(qq, ind, vs) ==
    IF vs = <<>> THEN [q |-> qq, indeg |-> ind]
    ELSE LET v == Head(vs)
             d == ind[v] - 1
         IN TopoRelax(IF d <= 0 THEN Append(qq, v) ELSE qq,
                      [ind EXCEPT ![v] = d], Tail(vs))

(* the while loop of order_within_columns: a node already seen is skipped *)
RECURSIVE TopoLoop(_, _, _, _, _)
TopoLoop(qq, ind, seen, topo, es) ==
    IF qq = <<>> THEN topo
    ELSE LET u == Head(qq)
         IN IF u \in seen THEN TopoLoop(Tail(qq), ind, seen, topo, es)
            ELSE LET r == TopoRelax(Tail(qq), ind, Adj(es, u))
                 IN TopoLoop(r.q, r.indeg, seen \cup {u}, Append(topo, u), es)

Topo(kd, es) ==
    LET ind == InDegree(kd, es)
    IN TopoLoop(SelectSeq([i \in 1..Len(kd) |-> i], LAMBDA n : ind[n] = 0),
                ind, {}, <<>>, es)

(* mutant: every node with rank 0 *)
RankZero(topo, n) == 0

(* rank.get(n, 0) *)
RankOf(topo, n) ==
    IF \E i \in 1..Len(topo) : topo[i] = n
    THEN (CHOOSE i \in 1..Len(topo) : topo[i] = n) - 1
    ELSE 0

RECURSIVE InsertByRank(_, _, _)
InsertByRank(x, s, topo) ==
    IF s = <<>> THEN <<x>>
    ELSE IF RankOf(topo, x) < RankOf(topo, Head(s)) THEN <<x>> \o s
         ELSE <<Head(s)>> \o InsertByRank(x, Tail(s), topo)

(* by_col[c].sort(key=rank) : stable *)
RECURSIVE SortByRank(_, _)
SortByRank(s, topo) ==
    IF s = <<>> THEN <<>>
    ELSE InsertByRank(s[Len(s)], SortByRank(SubSeq(s, 1, Len(s) - 1), topo), topo)

MaxColumn(cols) == CHOOSE c \in {cols[n] : n \in DOMAIN cols} :
                      \A n \in DOMAIN cols : cols[n] <= c

(* by_col.get(c, []) for c in range(base_col_count) *)
order_within_columns(kd, es, cols) ==
    LET topo == Topo(kd, es)
    IN [c \in 0..MaxColumn(cols) |->
          SortByRank(SelectSeq([i \in 1..Len(kd) |-> i], LAMBDA n : cols[n] = c), topo)]

-----------------------------------------------------------------------------
(* Sizing and placement in render *)

slide_width == 12191695
slide_height == 6858000
margin_l == 548640
margin_r == 548640
margin_t == 1005840
margin_b == 548640
v_gap == 274320
h_gap == 914400
box_w == 2743200
box_h == 822960
box_h_min == 640080
start_end_w == 1463040
start_end_h == 502920
(* Inches(1.1), the least height node_height gives a decision *)
decision_h == 1005840
(* Inches(1.0), the least height add_node_shape gives a diamond *)
diamond_h == 914400
(* Inches(0.25) *)
extra_after_decision == 228600
(* Inches(0.6), the distance of the shared lane point from the destination *)
lane_offset == 548640

usable_h == slide_height - margin_t - margin_b
usable_w == slide_width - margin_l - margin_r

per_col == Hi(1, (usable_h + v_gap) \div (box_h + v_gap))

(* mutant: the chunks of a column in reverse order *)
ChunksReversed(items) ==
    LET n == (Len(items) + per_col - 1) \div per_col
    IN [k \in 1..n |->
          SubSeq(items, (n - k) * per_col + 1, Lo((n - k + 1) * per_col, Len(items)))]

(* chunks = [items[i:i+per_col] for i in range(0, len(items), per_col)] *)
Chunks(items) ==
    [k \in 1..((Len(items) + per_col - 1) \div per_col) |->
        SubSeq(items, (k - 1) * per_col + 1, Lo(k * per_col, Len(items)))]

(* the chunks of columns 0..c, left to right *)
RECURSIVE ChunksUpTo(_, _)
ChunksUpTo(bc, c) ==
    IF c < 0 THEN <<>> ELSE ChunksUpTo(bc, c - 1) \o Chunks(bc[c])

(* <<quotient, remainder>> of a * b by c, for b < c, without a product *)
(* beyond the machine integers                                         *)
RECURSIVE MulDiv(_, _, _)
MulDiv(a, b, c) ==
    IF a = 0 THEN <<0, 0>>
    ELSE LET h == MulDiv(a \div 2, b, c)
             r == 2 * h[2] + (IF a % 2 = 1 THEN b ELSE 0)
         IN <<2 * h[1] + r \div c, r % c>>

(* mutant: the scaled value rounded up instead of truncated *)
ScaledUp(v, needed_w) ==
    IF needed_w > usable_w
    THEN LET d == MulDiv(v, usable_w, needed_w)
         IN IF d[2] = 0 THEN d[1] ELSE d[1] + 1
    ELSE v

(* int(v * scale) with scale = usable_w / needed_w when needed_w > usable_w *)
Scaled(v, needed_w) ==
    IF needed_w > usable_w THEN MulDiv(v, usable_w, needed_w)[1] ELSE v

(* fixed_order_cols: the chunks of column c at index c + 1, none for a column *)
(* without nodes                                                              *)
FixedOrderCols(bc, maxc) == [i \in 1..maxc + 1 |-> Chunks(bc[i - 1])]

(* cfg: the three widths that the scaling changes, and the heights and the *)
(* vertical gap, which it leaves alone                                     *)
DefaultCfg == [box_w |-> box_w, h_gap |-> h_gap, start_end_w |-> start_end_w,
               box_h |-> box_h, box_h_min |-> box_h_min,
               start_end_h |-> start_end_h, v_gap |-> v_gap]

(* needed_w = total_columns*cfg["box_w"] + (total_columns-1)*cfg["h_gap"] *)
NeededWidth(tc, c) == tc * c.box_w + (tc - 1) * c.h_gap

ScaledCfg(tc) ==
    LET needed_w == NeededWidth(tc, DefaultCfg)
    IN [DefaultCfg EXCEPT !.box_w = Scaled(box_w, needed_w),
                          !.h_gap = Scaled(h_gap, needed_w),
                          !.start_end_w = Scaled(start_end_w, needed_w)]

(* mutant: a height that depends on how far the run has come *)
estimate_action_height_drifting == box_h_min + ei * PAD

(* estimate_action_height for a title and details that wrap to at most two *)
(* lines: 0.32 + content * 1.18 inches stays below box_h_min                *)
estimate_action_height == box_h_min

node_height(k) ==
    IF k = "decision" THEN Hi(box_h, decision_h)
    ELSE IF k \in {"start", "end"} THEN start_end_h
    ELSE estimate_action_height

decisions_with_down(kd, es, rp) ==
    {es[i][1] : i \in {j \in 1..Len(es) :
                         kd[es[j][1]] = "decision"
                         /\ PrefOf(rp, es[j][1], es[j][2]) = "down"}}

(* y after the first k nodes of a chunk, relative to its top *)
RECURSIVE Advance(_, _, _, _)
Advance(chunk, k, kd, dwd) ==
    IF k = 0 THEN 0
    ELSE Advance(chunk, k - 1, kd, dwd) + node_height(kd[chunk[k]]) + v_gap
         + (IF chunk[k] \in dwd THEN extra_after_decision ELSE 0)

total_h(chunk, kd, dwd) ==
    Advance(chunk, Len(chunk) - 1, kd, dwd) + node_height(kd[chunk[Len(chunk)]])

(* mutant: a diamond drawn at least twice diamond_h high *)
add_node_shape_tall(k, left, top, width, height, sew) ==
    IF k \in {"start", "end"} THEN <<left + (width - sew) \div 2, top, sew, start_end_h>>
    ELSE IF k = "decision" THEN <<left, top, width, Hi(height, 2 * diamond_h)>>
    ELSE <<left, top, width, height>>

(* add_node_shape: <<left, top, width, height>> of the shape added *)
add_node_shape(k, left, top, width, height, sew) ==
    IF k \in {"start", "end"} THEN <<left + (width - sew) \div 2, top, sew, start_end_h>>
    ELSE IF k = "decision" THEN <<left, top, width, Hi(height, diamond_h)>>
    ELSE <<left, top, width, height>>

(* id_to_shape after the placement loop *)
PlaceNodes(kd, es, rp, cols) ==
    LET chunks == ChunksUpTo(order_within_columns(kd, es, cols), MaxColumn(cols))
        tc == Len(chunks)
        needed_w == tc * box_w + (tc - 1) * h_gap
        bw == Scaled(box_w, needed_w)
        hg == Scaled(h_gap, needed_w)
        sew == Scaled(start_end_w, needed_w)
        dwd == decisions_with_down(kd, es, rp)
    IN [n \in 1..Len(kd) |->
          LET j == CHOOSE j \in 1..tc : \E i \in 1..Len(chunks[j]) : chunks[j][i] = n
              i == CHOOSE i \in 1..Len(chunks[j]) : chunks[j][i] = n
              y0 == margin_t + Hi(0, (usable_h - total_h(chunks[j], kd, dwd)) \div 2)
          IN add_node_shape(kd[n], margin_l + (j - 1) * (bw + hg),
                            y0 + Advance(chunks[j], i - 1, kd, dwd),
                            bw, node_height(kd[n]), sew)]

mid_top(s) == <<s[1] + s[3] \div 2, s[2]>>
mid_bottom(s) == <<s[1] + s[3] \div 2, s[2] + s[4]>>
mid_left(s) == <<s[1], s[2] + s[4] \div 2>>
mid_right(s) == <<s[1] + s[3], s[2] + s[4] \div 2>>

(* the connector enters the destination from the left, through its lane point *)
EntersLeft(pref, su, sv) ==
    \/ pref = "right"
    \/ pref = "none" /\ (sv[1] > su[1] + su[3] \/ ~(sv[2] > su[2]))

(* mutant: a lane point recomputed at every edge, further left each time *)
EntryLaneFresh(del, v, sv) ==
    <<v, mid_left(sv),
      <<sv[1] - lane_offset * (1 + Cardinality(del)), sv[2] + sv[4] \div 2>>>>

(* dest_entry_lane[(v, "left")], set the first time v is entered from the left *)
EntryLane(del, v, sv) ==
    IF \E t \in del : t[1] = v THEN CHOOSE t \in del : t[1] = v
    ELSE <<v, mid_left(sv), <<sv[1] - lane_offset, sv[2] + sv[4] \div 2>>>>

-----------------------------------------------------------------------------
(* The schemas explored: n nodes of any kinds, at most m edges grouped by    *)
(* source; a Path line (label not "") only under a decision.                 *)

NonDecreasing(s) == \A i \in 1..Len(s) - 1 : s[i] <= s[i + 1]

Schema(maxN, maxE, lo) ==
    \E n \in 0..maxN : \E m \in 0..maxE :
      /\ kind \in [1..n -> Kinds]
      /\ \E srcs \in {s \in [1..m -> 1..n] : NonDecreasing(s)} :
         \E dsts \in [1..m -> lo..n] :
         \E lbls \in [1..m -> Labels] :
           /\ \A i \in 1..m : lbls[i] # "" => kind[srcs[i]] = "decision"
           /\ edges = [i \in 1..m |-> <<srcs[i], dsts[i], lbls[i]>>]
      /\ start_ids = SelectSeq([i \in 1..n |-> i], LAMBDA i : kind[i] = "start")

NoColumns ==
    /\ route_pref = {}
    /\ col = <<>>
    /\ q = <<>>
    /\ indeg = <<>>
    /\ iter = 0
    /\ columns = <<>>
    /\ pc = "plan"

(* the bullet engine has not run *)
NoFlow ==
    /\ human_flow = <<>>
    /\ flow_spec = <<>>
    /\ connectors = <<>>

(* the parser has not run *)
NoParse ==
    /\ nodes = <<>>
    /\ current_id = None
    /\ current_kind = "none"
    /\ consumed = 0
    /\ lines = <<>>
    /\ NoFlow

NoCall == [p1 |-> <<0, 0>>, p2 |-> <<0, 0>>, rects_all |-> {}, exclude_rects |-> {},
           ignore_lanes |-> FALSE, used_h |-> {}, used_v |-> {}]

(* nothing placed or drawn yet *)
NoDrawing ==
    /\ by_col = <<>>
    /\ fixed_order_cols = <<>>
    /\ cfg = DefaultCfg
    /\ shapes = <<>>
    /\ used_h = {}
    /\ used_v = {}
    /\ segs = <<>>
    /\ dest_entry_lane = {}
    /\ ei = 0
    /\ call = NoCall
    /\ ret = FALSE
    /\ printed = FALSE
    /\ saved = FALSE
    /\ result = "none"

Init ==
    /\ Schema(MaxNodes, MaxEdges, 1)
    /\ NoColumns
    /\ NoDrawing
    /\ NoParse

(* Wider schemas with few decisions, whose edges are Path "Yes"/"No" lines *)
(* under a decision and Leads-to lines elsewhere                           *)
InitWide ==
    /\ Schema(WideNodes, WideEdges, 1)
    /\ Cardinality({n \in DOMAIN kind : kind[n] = "decision"}) <= WideDecisions
    /\ \A i \in 1..Len(edges) : kind[edges[i][1]] = "decision" => edges[i][3] # ""
    /\ NoColumns
    /\ NoDrawing
    /\ NoParse

InitLoop ==
    /\ Schema(LoopNodes, LoopEdges, 1)
    /\ NoColumns
    /\ NoDrawing
    /\ NoParse

Plan ==
    /\ pc = "plan"
    /\ route_pref' = plan_decision_routes(kind, edges)
    /\ pc' = "assign"
    /\ UNCHANGED <<schema, parser, col, q, indeg, iter, columns, drawing>>

(* assign_columns(nodes, edges, start_ids, route_pref), run to its return;  *)
(* "looping" when the while loop is still running after MaxPops iterations  *)
Assign ==
    /\ pc = "assign"
    /\ IF Len(kind) = 0
       THEN /\ columns' = <<>>
            /\ pc' = "assigned"
            /\ UNCHANGED <<col, q, indeg>>
       ELSE LET st == RunLoop(AssignInit(kind, edges, start_ids), kind, edges,
                              route_pref, MaxPops)
            IN /\ col' = st.col
               /\ q' = st.q
               /\ indeg' = st.indeg
               /\ IF st.err THEN pc' = "KeyError" /\ columns' = <<>>
                  ELSE IF st.q # <<>> THEN pc' = "looping" /\ columns' = <<>>
                  ELSE pc' = "assigned" /\ columns' = Normalize(st.col)
    /\ UNCHANGED <<schema, parser, route_pref, iter, drawing>>

Next == Plan \/ Assign

Spec == Init /\ [][Next]_vars

SpecWide == InitWide /\ [][Next]_vars

-----------------------------------------------------------------------------
(* assign_columns one iteration of its while loop at a time *)

(* lines 259-267: the early return, col, q, adj and indeg *)
LoopStart ==
    /\ pc = "assign"
    /\ IF Len(kind) = 0
       THEN /\ columns' = <<>>
            /\ pc' = "assigned"
            /\ UNCHANGED <<col, q, indeg>>
       ELSE LET st == AssignInit(kind, edges, start_ids)
            IN /\ col' = st.col
               /\ q' = st.q
               /\ indeg' = st.indeg
               /\ columns' = <<>>
               /\ pc' = "loop"
    /\ UNCHANGED <<schema, parser, route_pref, iter, drawing>>

(* a queue longer than MaxQueue or a column beyond MaxCol *)
LoopTooBig == Len(q) > MaxQueue \/ \E n \in DOMAIN col : col[n] > MaxCol

(* lines 268-278: one iteration of `while q:` *)
LoopStep ==
    /\ pc = "loop"
    /\ q # <<>>
    /\ ~LoopTooBig
    /\ LET st == AssignIter([col |-> col, q |-> q, indeg |-> indeg, err |-> FALSE],
                            kind, edges, route_pref)
       IN /\ col' = st.col
          /\ q' = st.q
          /\ indeg' = st.indeg
          /\ pc' = IF st.err THEN "KeyError" ELSE "loop"
    /\ iter' = 1 - iter
    /\ UNCHANGED <<schema, parser, route_pref, columns, drawing>>

(* the model follows a run no further than this *)
LoopOverflow ==
    /\ pc = "loop"
    /\ LoopTooBig
    /\ pc' = "overflow"
    /\ UNCHANGED <<schema, parser, route_pref, col, q, indeg, iter, columns, drawing>>

(* lines 279-282: the queue is empty, normalise and return *)
LoopFinish ==
    /\ pc = "loop"
    /\ q = <<>>
    /\ columns' = Normalize(col)
    /\ pc' = "assigned"
    /\ UNCHANGED <<schema, parser, route_pref, col, q, indeg, iter, drawing>>

NextLoop == Plan \/ LoopStart \/ LoopStep \/ LoopOverflow \/ LoopFinish

SpecLoop == InitLoop /\ [][NextLoop]_vars

(* Python runs the loop without pause: an enabled iteration is taken *)
FairLoop == SpecLoop /\ WF_vars(NextLoop)

-----------------------------------------------------------------------------
(* render: the pipeline after the columns are assigned *)

RenderNodes == 3
RenderEdges == 3

InitRender ==
    /\ Schema(RenderNodes, RenderEdges, Undeclared)
    /\ NoColumns
    /\ NoDrawing
    /\ NoParse

(* what the early return of render does: the note on stdout, prs.save and *)
(* the value returned                                                     *)
EmptyReturnSilent(path) == [printed |-> FALSE, saved |-> TRUE, result |-> path]

EmptyReturn(path) == [printed |-> TRUE, saved |-> TRUE, result |-> path]

(* lines 553-557: `if not columns` *)
ReturnEmpty ==
    /\ pc = "assigned"
    /\ columns = <<>>
    /\ LET r == EmptyReturn("output_path")
       IN /\ printed' = r.printed
          /\ saved' = r.saved
          /\ result' = r.result
    /\ pc' = "returned"
    /\ UNCHANGED <<schema, parser, colvars, layout, shapes, used_h, used_v, segs,
                   dest_entry_lane, ei, call, ret>>

(* lines 558-740: order, size and place the nodes, empty lane sets *)
Place ==
    /\ pc = "assigned"
    /\ columns # <<>>
    /\ by_col' = order_within_columns(kind, edges, columns)
    /\ fixed_order_cols' = FixedOrderCols(by_col', MaxColumn(columns))
    /\ cfg' = ScaledCfg(Len(ChunksUpTo(by_col', MaxColumn(columns))))
    /\ shapes' = PlaceNodes(kind, edges, route_pref, columns)
    /\ used_h' = {}
    /\ used_v' = {}
    /\ dest_entry_lane' = {}
    /\ ei' = 1
    /\ pc' = "edges"
    /\ UNCHANGED <<schema, parser, colvars, segs, call, ret, printed, saved, result>>

(* lines 741-796: one iteration of the loop over the edges *)
DrawEdge ==
    /\ pc = "edges"
    /\ ei <= Len(edges)
    /\ LET u == edges[ei][1]
           v == edges[ei][2]
       IN IF v \notin DOMAIN shapes
          THEN /\ pc' = "KeyError"
               /\ UNCHANGED <<used_h, used_v, segs, dest_entry_lane, ei, call, ret>>
          ELSE LET su == shapes[u]
                   sv == shapes[v]
                   left == EntersLeft(PrefOf(route_pref, u, v), su, sv)
                   lane == EntryLane(dest_entry_lane, v, sv)
                   p1 == IF left THEN mid_right(su) ELSE mid_bottom(su)
                   p2 == IF left THEN lane[2] ELSE mid_top(sv)
                   target == IF left THEN lane[3] ELSE p2
                   rects_all == {shapes[n] : n \in DOMAIN shapes}
                   exclude == {su, sv}
                   allow_share == Cardinality({i \in 1..Len(edges) : edges[i][2] = v}) > 1
                   ignore == left /\ allow_share
                   dr0 == [segs |-> segs, used_h |-> used_h, used_v |-> used_v,
                           edge |-> ei, arrival |-> FALSE]
                   r == route_orthogonal_detour(dr0, p1, target, rects_all, exclude, ignore)
                   dr == IF left
                         THEN add_seg_registered([r.dr EXCEPT !.arrival = TRUE],
                                                 target[1], target[2], p2[1], p2[2], TRUE)
                         ELSE r.dr
               IN /\ segs' = dr.segs
                  /\ used_h' = dr.used_h
                  /\ used_v' = dr.used_v
                  /\ dest_entry_lane' = IF left THEN dest_entry_lane \cup {lane}
                                        ELSE dest_entry_lane
                  /\ call' = [p1 |-> p1, p2 |-> target, rects_all |-> rects_all,
                              exclude_rects |-> exclude, ignore_lanes |-> ignore,
                              used_h |-> used_h, used_v |-> used_v]
                  /\ ret' = r.ret
                  /\ ei' = ei + 1
                  /\ pc' = "edges"
    /\ UNCHANGED <<schema, parser, colvars, layout, shapes, printed, saved, result>>

(* lines 819-826: footer, notes slide, save and return *)
Finish ==
    /\ pc = "edges"
    /\ ei > Len(edges)
    /\ saved' = TRUE
    /\ result' = "output_path"
    /\ pc' = "returned"
    /\ UNCHANGED <<schema, parser, colvars, layout, shapes, used_h, used_v, segs,
                   dest_entry_lane, ei, call, ret, printed>>

NextRender == Plan \/ Assign \/ ReturnEmpty \/ Place \/ DrawEdge \/ Finish

SpecRender == InitRender /\ [][NextRender]_vars

(* render on a decision with three branches: node 1 is a decision with one  *)
(* edge to each of the other nodes, with any labels, and at most one more   *)
(* unlabelled edge among the other nodes at any position of the edge list   *)
BranchNodes == 4

InitBranch ==
    /\ kind \in {k \in [1..BranchNodes -> Kinds] : k[1] = "decision"}
    /\ \E lbls \in [1..BranchNodes - 1 -> Labels] :
       \E extra \in {<<>>} \cup {<<<<u, v, "">>>> : u, v \in 2..BranchNodes} :
       \E pos \in 0..BranchNodes - 1 :
          LET branch == [i \in 1..BranchNodes - 1 |-> <<1, i + 1, lbls[i]>>]
          IN /\ extra = <<>> => pos = 0
             /\ extra # <<>> => extra[1][1] # extra[1][2]
             /\ edges = SubSeq(branch, 1, pos) \o extra
                            \o SubSeq(branch, pos + 1, BranchNodes - 1)
    /\ start_ids = SelectSeq([i \in 1..BranchNodes |-> i], LAMBDA i : kind[i] = "start")
    /\ NoColumns
    /\ NoDrawing
    /\ NoParse

NextBranch == Plan \/ Assign \/ Place \/ DrawEdge \/ Finish

SpecBranch == InitBranch /\ [][NextBranch]_vars

(* render up to the placement of the nodes, on schemas tall and wide enough *)
(* for the chunking and the scaling: the first Rungs nodes form a ladder,   *)
(* node i with an edge to node i + 1 and an edge to node i + 2 (labelled    *)
(* "Yes" and "No" when i is a decision), the other nodes have no edges      *)
TallNodes == 9
TallRungs == 3

Ladder(kd, r) ==
    [i \in 1..2 * r |->
        LET u == (i + 1) \div 2
        IN IF i % 2 = 1
           THEN <<u, u + 1, IF kd[u] = "decision" THEN "Yes" ELSE "">>
           ELSE <<u, u + 2, IF kd[u] = "decision" THEN "No" ELSE "">>]

InitTall ==
    /\ \E n \in 0..TallNodes :
          /\ kind \in [1..n -> Kinds]
          /\ \E r \in 0..TallRungs :
                /\ r > 0 => r + 2 <= n
                /\ edges = Ladder(kind, r)
          /\ start_ids = SelectSeq([i \in 1..n |-> i], LAMBDA i : kind[i] = "start")
    /\ NoColumns
    /\ NoDrawing
    /\ NoParse

NextPlace == Plan \/ Assign \/ ReturnEmpty \/ Place

SpecPlace == InitTall /\ [][NextPlace]_vars

(* parse_schema_details_only, one line of the text at a time.  The lines    *)
(* are drawn from a small alphabet: node lines of every keyword over        *)
(* ParseIds ids with or without text after the id, Details and Title        *)
(* lines, Leads-to lines and Path lines with a label                        *)
MaxLines == 4
ParseIds == 2

Keywords == {"Start", "End", "Decision", "Action", "Info", "Information"}
Rests == {"", "rest"}
Texts == {"", "text"}
PathLabels == {"Yes", "No"}

(* m.group(1).lower(), "information" turned into "info" *)
KindOf(kw) ==
    CASE kw = "Start" -> "start"
      [] kw = "End" -> "end"
      [] kw = "Decision" -> "decision"
      [] kw = "Action" -> "action"
      [] kw = "Info" -> "info"
      [] kw = "Information" -> "info"

Declared(ns, nid) == \E i \in 1..Len(ns) : ns[i].id = nid

IndexOf(ns, nid) == CHOOSE i \in 1..Len(ns) : ns[i].id = nid

(* nodes[nid]["kind"] *)
StoredKind(ns, nid) == ns[IndexOf(ns, nid)].kind

(* mutant: a node line whose id is already in nodes overwrites its kind *)
DeclareLatest(ns, nid, k) ==
    IF Declared(ns, nid) THEN [ns EXCEPT ![IndexOf(ns, nid)].kind = k]
    ELSE Append(ns, [id |-> nid, kind |-> k, title |-> "", details_lines |-> <<>>])

(* lines 204-205: if nid not in nodes: nodes[nid] = {...} *)
Declare(ns, nid, k) ==
    IF Declared(ns, nid) THEN ns
    ELSE Append(ns, [id |-> nid, kind |-> k, title |-> "", details_lines |-> <<>>])

(* lines 195-210: a line matching NODE_RE *)
ParseNode ==
    /\ pc = "parse"
    /\ consumed < MaxLines
    /\ \E kw \in Keywords, nid \in 1..ParseIds, rest \in Rests :
          LET k == KindOf(kw)
              ns == Declare(nodes, nid, k)
          IN /\ current_id' = nid
             /\ current_kind' = k
             /\ nodes' = IF k \in {"start", "end", "decision"} /\ rest # ""
                         THEN [ns EXCEPT ![IndexOf(ns, nid)].title = rest]
                         ELSE ns
             /\ start_ids' = IF k = "start" THEN Append(start_ids, nid) ELSE start_ids
    /\ consumed' = consumed + 1
    /\ UNCHANGED <<kind, edges, lines, flow, colvars, pc, drawing>>

(* lines 212-215: a line matching DETAILS_RE while current_id is set *)
ParseDetails ==
    /\ pc = "parse"
    /\ consumed < MaxLines
    /\ current_id # None
    /\ \E text \in Texts :
          nodes' = [nodes EXCEPT ![IndexOf(nodes, current_id)].details_lines =
                                      Append(@, text)]
    /\ consumed' = consumed + 1
    /\ UNCHANGED <<schema, current_id, current_kind, lines, flow, colvars, pc, drawing>>

(* lines 217-220: a line matching TITLE_RE while current_id is set *)
ParseTitle ==
    /\ pc = "parse"
    /\ consumed < MaxLines
    /\ current_id # None
    /\ \E text \in Texts :
          nodes' = [nodes EXCEPT ![IndexOf(nodes, current_id)].title = text]
    /\ consumed' = consumed + 1
    /\ UNCHANGED <<schema, current_id, current_kind, lines, flow, colvars, pc, drawing>>

(* lines 222-225: a line matching LEADS_RE while current_id is set *)
ParseLeads ==
    /\ pc = "parse"
    /\ consumed < MaxLines
    /\ current_id # None
    /\ \E dest \in 1..ParseIds : edges' = Append(edges, <<current_id, dest, "">>)
    /\ consumed' = consumed + 1
    /\ UNCHANGED <<kind, start_ids, nodes, current_id, current_kind, lines, flow, colvars, pc,
                   drawing>>

(* lines 227-230: a line matching PATH_RE while the current node line is a *)
(* decision                                                                *)
ParsePath ==
    /\ pc = "parse"
    /\ consumed < MaxLines
    /\ current_id # None
    /\ current_kind = "decision"
    /\ \E lbl \in PathLabels, dest \in 1..ParseIds :
          edges' = Append(edges, <<current_id, dest, lbl>>)
    /\ consumed' = consumed + 1
    /\ UNCHANGED <<kind, start_ids, nodes, current_id, current_kind, lines, flow, colvars, pc,
                   drawing>>

(* lines 192-193 and the fall through of the loop body: a blank line, a     *)
(* line no pattern matches, a Details, Title or Leads-to line before the    *)
(* first node line, a Path line while the current node line is no decision  *)
ParseSkip ==
    /\ pc = "parse"
    /\ consumed < MaxLines
    /\ consumed' = consumed + 1
    /\ UNCHANGED <<schema, nodes, current_id, current_kind, lines, flow, colvars, pc, drawing>>

(* line 232: the end of the text *)
ParseReturn ==
    /\ pc = "parse"
    /\ pc' = "parsed"
    /\ UNCHANGED <<schema, parser, colvars, drawing>>

InitParse ==
    /\ kind = <<>> /\ edges = <<>> /\ start_ids = <<>>
    /\ NoParse
    /\ route_pref = {} /\ col = <<>> /\ q = <<>> /\ indeg = <<>> /\ iter = 0
    /\ columns = <<>>
    /\ pc = "parse"
    /\ NoDrawing

NextParse ==
    \/ ParseNode \/ ParseDetails \/ ParseTitle \/ ParseLeads \/ ParsePath
    \/ ParseSkip \/ ParseReturn

SpecParse == InitParse /\ [][NextParse]_vars

-----------------------------------------------------------------------------
(* route_orthogonal_detour on its own: one call on points of a grid, with   *)
(* obstacles and lanes already registered                                   *)

GridMax == 2
Step == 4 * PAD
Grid == {k * Step : k \in 0..GridMax}

(* two square obstacles of side Step *)
RectChoices == {<<Step, Step, Step, Step>>, <<2 * Step, 0, Step, Step>>}

(* lanes on grid lines and on the gutter lines of the obstacles *)
LaneChoices == {<<0, 0, Step>>, <<Step - GutterOffset, 0, 2 * Step>>}

InitRoute ==
    /\ kind = <<>> /\ edges = <<>> /\ start_ids = <<>>
    /\ NoParse
    /\ route_pref = {} /\ col = <<>> /\ q = <<>> /\ indeg = <<>> /\ iter = 0
    /\ columns = <<>>
    /\ pc = "route"
    /\ by_col = <<>> /\ fixed_order_cols = <<>> /\ cfg = DefaultCfg
    /\ shapes = <<>> /\ segs = <<>> /\ dest_entry_lane = {} /\ ei = 0
    /\ ret = FALSE /\ printed = FALSE /\ saved = FALSE /\ result = "none"
    /\ used_h \in SUBSET LaneChoices
    /\ used_v \in SUBSET LaneChoices
    /\ \E p1 \in Grid \X Grid, p2 \in Grid \X Grid :
       \E ra \in SUBSET RectChoices, ex \in SUBSET RectChoices, ig \in BOOLEAN :
          call = [p1 |-> p1, p2 |-> p2, rects_all |-> ra, exclude_rects |-> ex,
                  ignore_lanes |-> ig, used_h |-> used_h, used_v |-> used_v]

Route ==
    /\ pc = "route"
    /\ LET r == route_orthogonal_detour(
                    [NoSegs EXCEPT !.used_h = used_h, !.used_v = used_v],
                    call.p1, call.p2, call.rects_all, call.exclude_rects,
                    call.ignore_lanes)
       IN /\ segs' = r.dr.segs
          /\ used_h' = r.dr.used_h
          /\ used_v' = r.dr.used_v
          /\ ret' = r.ret
    /\ pc' = "routed"
    /\ UNCHANGED <<schema, parser, colvars, layout, shapes, dest_entry_lane, ei, call,
                   printed, saved, result>>

NextRoute == Route

SpecRoute == InitRoute /\ [][NextRoute]_vars

(* segment_hits_rect on its own: one call on a segment between points of a  *)
(* small grid, a rectangle and a pad                                        *)
HitMax == 6
HitRects == {<<2, 2, 2, 2>>, <<3, 1, 1, 3>>}
HitPads == {0, 1}

InitHit ==
    /\ kind = <<>> /\ edges = <<>> /\ start_ids = <<>>
    /\ NoParse
    /\ route_pref = {} /\ col = <<>> /\ q = <<>> /\ indeg = <<>> /\ iter = 0
    /\ columns = <<>>
    /\ pc = "hit"
    /\ by_col = <<>> /\ fixed_order_cols = <<>> /\ cfg = DefaultCfg
    /\ shapes = <<>> /\ segs = <<>> /\ dest_entry_lane = {} /\ ei = 0
    /\ used_h = {} /\ used_v = {}
    /\ ret = FALSE /\ printed = FALSE /\ saved = FALSE /\ result = "none"
    /\ \E x1 \in 0..HitMax, y1 \in 0..HitMax, x2 \in 0..HitMax, y2 \in 0..HitMax :
       \E rect \in HitRects, pad \in HitPads :
          call = [x1 |-> x1, y1 |-> y1, x2 |-> x2, y2 |-> y2, rect |-> rect, pad |-> pad]

Hit ==
    /\ pc = "hit"
    /\ ret' = segment_hits_rect(call.x1, call.y1, call.x2, call.y2, call.rect, call.pad)
    /\ pc' = "hit_done"
    /\ UNCHANGED <<schema, parser, colvars, layout, shapes, used_h, used_v, segs,
                   dest_entry_lane, ei, call, printed, saved, result>>

NextHit == Hit

SpecHit == InitHit /\ [][NextHit]_vars

-----------------------------------------------------------------------------
(* C1: assign_columns terminates on every finite graph, cycles through a   *)
(* start node included: every run of the loop reaches its return (or       *)
(* leaves the sizes the model follows).                                    *)
C1_AssignTerminates == <>(pc \in {"assigned", "overflow", "KeyError"})

-----------------------------------------------------------------------------
(* Graph notions used to state the properties *)

EdgeIdx == 1..Len(edges)
Src(i) == edges[i][1]
Dst(i) == edges[i][2]
Lbl(i) == edges[i][3]
OutIdx(u) == {i \in EdgeIdx : Src(i) = u}
InIdx(v) == {i \in EdgeIdx : Dst(i) = v}

RECURSIVE ReachFrom(_)
ReachFrom(S) ==
    LET T == S \cup {Dst(i) : i \in {j \in EdgeIdx : Src(j) \in S}}
    IN IF T = S THEN S ELSE ReachFrom(T)

RECURSIVE ReachTo(_)
ReachTo(S) ==
    LET T == S \cup {Src(i) : i \in {j \in EdgeIdx : Dst(j) \in S}}
    IN IF T = S THEN S ELSE ReachTo(T)

(* the nodes with a path of at least one edge to n *)
Ancestors(n) == ReachTo({Src(i) : i \in InIdx(n)})

(* the nodes the propagation starts from *)
StartSet == {StartList(kind, start_ids)[i] : i \in 1..Len(StartList(kind, start_ids))}

(* edge i comes before edge j when sorted "Yes" first, then by label, ties *)
(* in edge order                                                          *)
LabelKey(l) == IF l = "Yes" THEN 0 ELSE 1 + LabelRank(l)
SortsBefore(i, j) ==
    LabelKey(Lbl(i)) < LabelKey(Lbl(j)) \/ (LabelKey(Lbl(i)) = LabelKey(Lbl(j)) /\ i < j)
NthOut(u, k) ==
    CHOOSE i \in OutIdx(u) : Cardinality({j \in OutIdx(u) : SortsBefore(j, i)}) = k - 1

RightIdx(u) == {i \in OutIdx(u) : PrefOf(route_pref, u, Dst(i)) = "right"}
DownIdx(u) == {i \in OutIdx(u) : PrefOf(route_pref, u, Dst(i)) = "down"}
Decisions == {n \in DOMAIN kind : kind[n] = "decision"}
DistinctDests(u) == \A i, j \in OutIdx(u) : i # j => Dst(i) # Dst(j)

-----------------------------------------------------------------------------
(* C2: after assign_columns completes every declared node has an integer   *)
(* column >= 0, and a node the propagation never reached has column 0.     *)
C2_ColumnsNonNegative ==
    pc = "assigned" =>
      /\ DOMAIN columns = DOMAIN kind
      /\ \A n \in DOMAIN kind :
           /\ columns[n] \in Nat
           /\ col[n] = None => columns[n] = 0
           /\ n \notin ReachFrom(StartSet) => columns[n] = 0

C2_Witness ==
    /\ pc = "assigned"
    /\ \E n, m \in DOMAIN kind : col[n] = None /\ columns[m] > 0

(* C3: after assign_columns completes every node of kind start has column  *)
(* 0, also when the start node has incoming edges.                         *)
C3_StartsAtZero ==
    pc = "assigned" => \A n \in DOMAIN kind : kind[n] = "start" => columns[n] = 0

(* C4 as claimed: a decision with two or more outgoing edges has exactly    *)
(* one outgoing edge with preference right (the first after sorting) and   *)
(* exactly one with down (the second); with one outgoing edge, it is down. *)
C4_OneRightOneDown ==
    pc # "plan" =>
      \A d \in Decisions :
        /\ Cardinality(OutIdx(d)) >= 2 =>
             /\ RightIdx(d) = {NthOut(d, 1)}
             /\ DownIdx(d) = {NthOut(d, 2)}
        /\ Cardinality(OutIdx(d)) = 1 => DownIdx(d) = OutIdx(d) /\ RightIdx(d) = {}

(* C4 amended: the preference is stored per (decision, destination): the   *)
(* pair of the second sorted edge is down, the pair of the first is right  *)
(* unless it is the same pair, no other pair of the decision is stored; so *)
(* with pairwise distinct destinations exactly the first edge is right and *)
(* exactly the second is down.  With one outgoing edge, it is down.        *)
C4_RoutesPlanned ==
    pc # "plan" =>
      /\ \A t \in route_pref : t[1] \in Decisions /\ OutIdx(t[1]) # {}
      /\ \A d \in Decisions :
           /\ Cardinality(OutIdx(d)) >= 2 =>
                LET f == NthOut(d, 1)
                    s == NthOut(d, 2)
                IN /\ PrefOf(route_pref, d, Dst(s)) = "down"
                   /\ Dst(f) # Dst(s) => PrefOf(route_pref, d, Dst(f)) = "right"
                   /\ \A t \in route_pref : t[1] = d => t[2] \in {Dst(f), Dst(s)}
                   /\ DistinctDests(d) => RightIdx(d) = {f} /\ DownIdx(d) = {s}
           /\ Cardinality(OutIdx(d)) = 1 =>
                DownIdx(d) = OutIdx(d) /\ RightIdx(d) = {}

C4_Witness ==
    /\ pc # "plan"
    /\ \E d \in Decisions :
         /\ Cardinality(OutIdx(d)) >= 3
         /\ DistinctDests(d)
         /\ Lbl(NthOut(d, 1)) = "Yes"
         /\ NthOut(d, 1) > NthOut(d, 2)

(* d's outgoing edges are Path "Yes" -> a and Path "No" -> b, and a and b   *)
(* have no other incoming edge                                             *)
YesNoDecision(d, a, b) ==
    /\ kind[d] = "decision"
    /\ a # d /\ b # d /\ a # b
    /\ Cardinality(OutIdx(d)) = 2
    /\ \E i, j \in OutIdx(d) :
         /\ Lbl(i) = "Yes" /\ Dst(i) = a
         /\ Lbl(j) = "No" /\ Dst(j) = b
         /\ InIdx(a) = {i}
         /\ InIdx(b) = {j}

YesNoLaidOut(d, a, b) ==
    /\ PrefOf(route_pref, d, a) = "right"
    /\ PrefOf(route_pref, d, b) = "down"
    /\ columns[a] = columns[d] + 1
    /\ columns[b] = columns[d]

Propagated(d) ==
    \A x \in Ancestors(d) \cup {d} :
      x \in ReachFrom(StartSet) /\ x \notin Ancestors(x)

-----------------------------------------------------------------------------
(* C6: a schema with an edge whose destination no node line declared is    *)
(* processed to completion without raising.                                 *)
Dangling == \E i \in EdgeIdx : Dst(i) = Undeclared

C6_DanglingEdgeTolerated == Dangling => pc # "KeyError"

-----------------------------------------------------------------------------
(* C7 as claimed: with zero parsed nodes what render hands its caller is   *)
(* distinguishable from what a successful render hands it (a normal return *)
(* of the output path), and no shape and no connector is placed.           *)
C7_EmptyGraphReported ==
    Len(kind) = 0 /\ pc \notin {"plan", "assign", "assigned"} =>
        /\ ~(pc = "returned" /\ result = "output_path")
        /\ shapes = <<>>
        /\ segs = <<>>

(* C7 amended: with zero parsed nodes render prints a note, saves the deck *)
(* and returns the output path as a successful render does, without        *)
(* raising; it places no node shape and no connector.  The note is printed *)
(* in no other case.                                                       *)
C7_EmptyGraphReturnsPath ==
    /\ Len(kind) = 0 /\ pc \notin {"plan", "assign", "assigned"} =>
          /\ pc = "returned"
          /\ result = "output_path"
          /\ printed
          /\ saved
          /\ shapes = <<>>
          /\ segs = <<>>
    /\ printed => Len(kind) = 0

C7_Witness == Len(kind) = 0 /\ pc = "returned" /\ printed

-----------------------------------------------------------------------------
(* C8: every call of route_orthogonal_detour(p1, p2, ...) draws 1 to 3     *)
(* segments forming a chain from p1 to p2, each starting where the         *)
(* previous one ended; only the last one has an arrowhead.  Also when no   *)
(* clear route exists.                                                     *)
C8_ConnectedChain ==
    pc = "routed" =>
        /\ Len(segs) \in 1..3
        /\ <<segs[1].x1, segs[1].y1>> = call.p1
        /\ \A i \in 1..Len(segs) - 1 :
              <<segs[i].x2, segs[i].y2>> = <<segs[i + 1].x1, segs[i + 1].y1>>
        /\ <<segs[Len(segs)].x2, segs[Len(segs)].y2>> = call.p2
        /\ \A i \in 1..Len(segs) : segs[i].end <=> i = Len(segs)

(* a call that found no clear route among obstacles and drew the fallback *)
C8_Witness ==
    /\ pc = "routed"
    /\ ~ret
    /\ Len(segs) = 1
    /\ call.rects_all \ call.exclude_rects # {}
    /\ call.p1 # call.p2

-----------------------------------------------------------------------------
(* Geometry used to state C9 and C10.  A segment with x1 = x2 is vertical, *)
(* as add_seg_registered classifies it; RangeLo/RangeHi are the ends of    *)
(* its range along its own axis.                                           *)
Vertical(s) == s.x1 = s.x2
Horizontal(s) == s.x1 # s.x2 /\ s.y1 = s.y2
Fixed(s) == IF Vertical(s) THEN s.x1 ELSE s.y1
RangeLo(s) == IF Vertical(s) THEN Lo(s.y1, s.y2) ELSE Lo(s.x1, s.x2)
RangeHi(s) == IF Vertical(s) THEN Hi(s.y1, s.y2) ELSE Hi(s.x1, s.x2)

(* s runs within the span of r grown by PAD on the perpendicular axis and *)
(* overlaps its range on the parallel axis                                *)
HitsPadded(s, r) ==
    LET l == r[1] - PAD
        t == r[2] - PAD
        rr == r[1] + r[3] + PAD
        b == r[2] + r[4] + PAD
    IN IF Vertical(s)
       THEN l <= s.x1 /\ s.x1 <= rr /\ RangeLo(s) < b /\ t < RangeHi(s)
       ELSE t <= s.y1 /\ s.y1 <= b /\ RangeLo(s) < rr /\ l < RangeHi(s)

OverlapsLane(s, uh, uv) ==
    \E l \in (IF Vertical(s) THEN uv ELSE uh) :
        l[1] = Fixed(s) /\ l[2] < RangeHi(s) /\ RangeLo(s) < l[3]

(* C9: when route_orthogonal_detour returns True every segment it drew is  *)
(* horizontal or vertical, hits no non-excluded obstacle grown by the      *)
(* clearance pad and, unless ignore_lanes, overlaps no lane of the same    *)
(* fixed coordinate registered before the call.                            *)
C9_SuccessIsClear ==
    pc = "routed" /\ ret =>
        \A i \in 1..Len(segs) :
            /\ Vertical(segs[i]) \/ Horizontal(segs[i])
            /\ \A r \in call.rects_all \ call.exclude_rects : ~HitsPadded(segs[i], r)
            /\ ~call.ignore_lanes => ~OverlapsLane(segs[i], call.used_h, call.used_v)

(* a three-segment route with an obstacle present, one of its segments on  *)
(* the line of a lane registered before the call                          *)
C9_Witness ==
    /\ pc = "routed"
    /\ ret
    /\ Len(segs) = 3
    /\ ~call.ignore_lanes
    /\ call.rects_all \ call.exclude_rects # {}
    /\ \E i \in 1..Len(segs) :
          /\ RangeLo(segs[i]) < RangeHi(segs[i])
          /\ \E l \in (IF Vertical(segs[i]) THEN call.used_v ELSE call.used_h) :
                l[1] = Fixed(segs[i])

-----------------------------------------------------------------------------
(* C10: in one render pass two segments of different edges registered on   *)
(* the same axis with the same fixed coordinate never overlap in range,    *)
(* except the final segments of edges entering the same destination.       *)
Registered(s) == Vertical(s) \/ Horizontal(s)

LastOfEdge(i) == \A j \in 1..Len(segs) : j > i => segs[j].edge # segs[i].edge

SharedArrival(i, j) ==
    /\ Dst(segs[i].edge) = Dst(segs[j].edge)
    /\ LastOfEdge(i)
    /\ LastOfEdge(j)

(* the two ranges have more than a point in common *)
RangesOverlap(s, t) == Hi(RangeLo(s), RangeLo(t)) < Lo(RangeHi(s), RangeHi(t))

-----------------------------------------------------------------------------
(* The candidates of a call, stated from its arguments: a candidate is the *)
(* list of points it visits; it passes when each of its links is clear of  *)
(* the non-excluded padded obstacles and, unless ignore_lanes, of the      *)
(* lanes registered before the call.                                       *)
Link(a, b) == [x1 |-> a[1], y1 |-> a[2], x2 |-> b[1], y2 |-> b[2]]

Obstacles == call.rects_all \ call.exclude_rects

LinkPasses(a, b) ==
    /\ \A r \in Obstacles : ~HitsPadded(Link(a, b), r)
    /\ call.ignore_lanes \/ ~OverlapsLane(Link(a, b), call.used_h, call.used_v)

Passes(c) == \A i \in 1..Len(c) - 1 : LinkPasses(c[i], c[i + 1])

ElbowHV == <<call.p1, <<call.p2[1], call.p1[2]>>, call.p2>>
ElbowVH == <<call.p1, <<call.p1[1], call.p2[2]>>, call.p2>>
ViaY(yg) == <<call.p1, <<call.p1[1], yg>>, <<call.p2[1], yg>>, call.p2>>
ViaX(xg) == <<call.p1, <<xg, call.p1[2]>>, <<xg, call.p2[2]>>, call.p2>>
GutterYs == {r[2] - GutterOffset : r \in Obstacles}
              \cup {r[2] + r[4] + GutterOffset : r \in Obstacles}
GutterXs == {r[1] - GutterOffset : r \in Obstacles}
              \cup {r[1] + r[3] + GutterOffset : r \in Obstacles}

(* the points the drawn connectors visit *)
Drawn ==
    [i \in 1..Len(segs) + 1 |->
        IF i = 1 THEN <<segs[1].x1, segs[1].y1>>
        ELSE <<segs[i - 1].x2, segs[i - 1].y2>>]

(* C11: route_orthogonal_detour draws the first passing candidate in the   *)
(* order: L-shape via (p2.x, p1.y); L-shape via (p1.x, p2.y); horizontal   *)
(* gutters in ascending y; vertical gutters in ascending x.  The direct    *)
(* segment p1 -> p2 is drawn only when none of them passes.                *)
C11_FirstPassingCandidate ==
    pc = "routed" =>
        IF Passes(ElbowHV) THEN ret /\ Drawn = ElbowHV
        ELSE IF Passes(ElbowVH) THEN ret /\ Drawn = ElbowVH
        ELSE IF \E yg \in GutterYs : Passes(ViaY(yg))
        THEN ret /\ \E yg \in GutterYs :
                      /\ Passes(ViaY(yg))
                      /\ \A y2 \in GutterYs : y2 < yg => ~Passes(ViaY(y2))
                      /\ Drawn = ViaY(yg)
        ELSE IF \E xg \in GutterXs : Passes(ViaX(xg))
        THEN ret /\ \E xg \in GutterXs :
                      /\ Passes(ViaX(xg))
                      /\ \A x2 \in GutterXs : x2 < xg => ~Passes(ViaX(x2))
                      /\ Drawn = ViaX(xg)
        ELSE ~ret /\ Drawn = <<call.p1, call.p2>>

(* both L-shapes fail and several horizontal gutters pass: the route goes *)
(* through the one of least y                                             *)
C11_Witness ==
    /\ pc = "routed"
    /\ ret
    /\ ~Passes(ElbowHV) /\ ~Passes(ElbowVH)
    /\ \E yg, y2 \in GutterYs : yg < y2 /\ Passes(ViaY(yg)) /\ Passes(ViaY(y2))
                                 /\ Drawn = ViaY(yg)

-----------------------------------------------------------------------------
(* The connectors of an edge, and the sides of a placed box *)
SegsOfEdge(e) == {i \in 1..Len(segs) : segs[i].edge = e}
DrawnEdges == {segs[i].edge : i \in 1..Len(segs)}
FinalSeg(e) == segs[CHOOSE i \in SegsOfEdge(e) : \A j \in SegsOfEdge(e) : j <= i]
SegStart(s) == <<s.x1, s.y1>>
SegEnd(s) == <<s.x2, s.y2>>
LeftMiddle(b) == <<b[1], b[2] + b[4] \div 2>>
TopMiddle(b) == <<b[1] + b[3] \div 2, b[2]>>
EntersAtLeft(e) == SegEnd(FinalSeg(e)) = LeftMiddle(shapes[Dst(e)])
EntersAtTop(e) == SegEnd(FinalSeg(e)) = TopMiddle(shapes[Dst(e)])

(* C12 as claimed: edges entering the same destination from the same side  *)
(* (left or top) pass through one shared arrival point and end with the    *)
(* same final segment.                                                     *)
C12_SharedArrival ==
    \A e, f \in DrawnEdges :
        ( /\ Dst(e) = Dst(f)
          /\ (EntersAtLeft(e) /\ EntersAtLeft(f)) \/ (EntersAtTop(e) /\ EntersAtTop(f)) )
        => /\ SegStart(FinalSeg(e)) = SegStart(FinalSeg(f))
           /\ SegEnd(FinalSeg(e)) = SegEnd(FinalSeg(f))

(* the lane point of a box: lane_offset left of the middle of its left side *)
LanePoint(b) == <<b[1] - lane_offset, b[2] + b[4] \div 2>>

(* C12 amended: every edge entering its destination from the left is       *)
(* routed to the destination's lane point, stored once per destination in  *)
(* dest_entry_lane, and ends with the segment from the lane point to the   *)
(* middle of the left side; every other edge ends at the middle of the top *)
(* side.  So edges entering one destination from the left share the        *)
(* arrival point and the final segment.                                    *)
C12_SharedLeftArrival ==
    /\ \A e \in DrawnEdges :
          IF EntersAtLeft(e)
          THEN LET b == shapes[Dst(e)]
               IN /\ SegStart(FinalSeg(e)) = LanePoint(b)
                  /\ \E i \in SegsOfEdge(e) :
                        segs[i] # FinalSeg(e) /\ SegEnd(segs[i]) = LanePoint(b)
                           /\ segs[i + 1] = FinalSeg(e)
                  /\ <<Dst(e), LeftMiddle(b), LanePoint(b)>> \in dest_entry_lane
          ELSE EntersAtTop(e)
    /\ \A t, u \in dest_entry_lane : t[1] = u[1] => t = u

(* two edges from different sources drawn into the left side of one box *)
C12_Witness ==
    \E e, f \in DrawnEdges :
        /\ e # f
        /\ Src(e) # Src(f)
        /\ Dst(e) = Dst(f)
        /\ EntersAtLeft(e) /\ EntersAtLeft(f)

-----------------------------------------------------------------------------
(* The branches of a decision beyond the two that plan_decision_routes      *)
(* gives a stored preference.                                               *)
Dests(u) == {Dst(i) : i \in OutIdx(u)}

FurtherBranch(e) ==
    /\ kind[Src(e)] = "decision"
    /\ DistinctDests(Src(e))
    /\ Cardinality(Dests(Src(e))) >= 3
    /\ e \notin {NthOut(Src(e), 1), NthOut(Src(e), 2)}

(* the edge drawn by the last iteration of the loop over the edges *)
LastDrawn == ei - 1

Others(e) == {shapes[n] : n \in DOMAIN shapes} \ {shapes[Src(e)], shapes[Dst(e)]}

(* C13: a branch of a decision with three or more distinct destinations    *)
(* that is not among the first two of the sorted branches has no stored    *)
(* preference, and its connector is drawn by an L-shape or a gutter        *)
(* candidate, not by the fallback: no segment of it hits a padded box      *)
(* other than its source and destination or overlaps a lane registered     *)
(* before it was routed.                                                    *)
C13_FurtherBranchRouted ==
    (pc = "edges" /\ LastDrawn >= 1 /\ FurtherBranch(LastDrawn)) =>
        /\ PrefOf(route_pref, Src(LastDrawn), Dst(LastDrawn)) = "none"
        /\ ret
        /\ \A i \in 1..Len(segs) :
              segs[i].edge = LastDrawn =>
                  /\ \A r \in Others(LastDrawn) : ~HitsPadded(segs[i], r)
                  /\ ~OverlapsLane(segs[i], call.used_h, call.used_v)

(* the part of C13 on plan_decision_routes alone *)
C13_OnlyTwoPreferences ==
    pc # "plan" =>
        \A e \in EdgeIdx :
            FurtherBranch(e) => PrefOf(route_pref, Src(e), Dst(e)) = "none"

-----------------------------------------------------------------------------
(* The boxes as placed: left, top, right and bottom of a shape, the chunks  *)
(* of fixed_order_cols left to right, and the stacked height of a chunk     *)
BoxLeft(b) == b[1]
BoxTop(b) == b[2]
BoxRight(b) == b[1] + b[3]
BoxBottom(b) == b[2] + b[4]

Placed == pc = "edges"

RECURSIVE Flatten(_)
Flatten(ss) == IF ss = <<>> THEN <<>> ELSE Head(ss) \o Flatten(Tail(ss))

AllChunks == Flatten(fixed_order_cols)

DownDecisions == decisions_with_down(kind, edges, route_pref)

StackedHeight(chunk) == total_h(chunk, kind, DownDecisions)

InteriorsMeet(a, b) ==
    /\ BoxLeft(a) < BoxRight(b) /\ BoxLeft(b) < BoxRight(a)
    /\ BoxTop(a) < BoxBottom(b) /\ BoxTop(b) < BoxBottom(a)

(* C14: after placement no two distinct node boxes, as drawn (narrowed      *)
(* start lozenges, decisions at least diamond_h high), have a common        *)
(* interior point, also when columns were chunked and widths scaled.        *)
C14_BoxesDisjoint ==
    Placed =>
        \A n, m \in DOMAIN shapes :
            n # m => ~InteriorsMeet(shapes[n], shapes[m])

(* a placement with a column split into chunks, scaled widths, and a start  *)
(* lozenge directly above a decision in one chunk                           *)
C14_Witness ==
    /\ Placed
    /\ \E c \in DOMAIN fixed_order_cols : Len(fixed_order_cols[c]) >= 2
    /\ cfg.box_w < box_w
    /\ \E j \in DOMAIN AllChunks : \E i \in 1..Len(AllChunks[j]) - 1 :
          /\ kind[AllChunks[j][i]] = "start"
          /\ kind[AllChunks[j][i + 1]] = "decision"

-----------------------------------------------------------------------------
(* C15: after chunking the stacked height of every chunk (node heights,     *)
(* v_gap between consecutive nodes, extra_after_decision after each         *)
(* decision that routes down) is at most usable_h, and no placed box        *)
(* extends below the bottom margin.                                         *)
C15_ChunksFit ==
    Placed =>
        /\ \A j \in DOMAIN AllChunks : StackedHeight(AllChunks[j]) <= usable_h
        /\ \A n \in DOMAIN shapes : BoxBottom(shapes[n]) <= slide_height - margin_b

(* a chunk of at most per_col nodes whose lowest box ends below the slide *)
C15_BelowSlide ==
    /\ Placed
    /\ \A j \in DOMAIN AllChunks : Len(AllChunks[j]) <= per_col
    /\ \E n \in DOMAIN shapes : BoxBottom(shapes[n]) > slide_height

-----------------------------------------------------------------------------
(* the ordered node list of column c and its chunks *)
ColumnList(c) == by_col[c]
ColumnChunks(c) == fixed_order_cols[c + 1]
ColumnIds == 0..Len(fixed_order_cols) - 1
Split(c) == Len(ColumnChunks(c)) >= 2

(* C16: a column is split only if its stacked height exceeds               *)
(* usable_h; a column that fits stays one chunk however many nodes it has.  *)
C16_SplitOnlyIfTooTall ==
    Placed =>
        \A c \in ColumnIds :
            Split(c) => StackedHeight(ColumnList(c)) > usable_h

(* what holds instead: a column is split exactly when it holds more than    *)
(* per_col nodes, whatever its stacked height, into ceil(len / per_col)     *)
(* chunks.                                                                  *)
C16_SplitByCount ==
    Placed =>
        \A c \in ColumnIds :
            /\ Split(c) <=> Len(ColumnList(c)) > per_col
            /\ Len(ColumnChunks(c)) = (Len(ColumnList(c)) + per_col - 1) \div per_col

(* a column that fits usable_h and is split, and one that does not fit and *)
(* stays one chunk                                                         *)
C16_Witness ==
    /\ Placed
    /\ \E c \in ColumnIds :
          Split(c) /\ StackedHeight(ColumnList(c)) <= usable_h

C16_TallUnsplit ==
    /\ Placed
    /\ \E c \in ColumnIds :
          /\ ColumnList(c) # <<>>
          /\ ~Split(c)
          /\ StackedHeight(ColumnList(c)) > usable_h

-----------------------------------------------------------------------------
(* floor((usable_h + v_gap) / (box_h_min + v_gap)): how many boxes of the   *)
(* minimum height fit the vertical budget                                   *)
MinHeightPerCol == (usable_h + v_gap) \div (box_h_min + v_gap)

ChunkSizesWithin(c, n) ==
    \A k \in DOMAIN ColumnChunks(c) : Len(ColumnChunks(c)[k]) <= n

Concatenated(c) == Flatten(ColumnChunks(c)) = ColumnList(c)

(* C17 as claimed: per_col is floor((usable_h + v_gap) / (box_h_min +       *)
(* v_gap)), every chunk holds at most per_col nodes and the chunks of a     *)
(* column concatenated in order are the column's ordered node list.         *)
C17_PerColFromMinHeight ==
    Placed =>
        /\ per_col = MinHeightPerCol
        /\ \A c \in ColumnIds : ChunkSizesWithin(c, per_col) /\ Concatenated(c)

(* C17: per_col is floor((usable_h + v_gap) / (box_h + v_gap)) with the     *)
(* default box height of cfg, which is less than the value the minimum      *)
(* box height gives; every chunk holds at most per_col nodes, every chunk   *)
(* but the last of a column exactly per_col, none is empty, and the chunks  *)
(* of a column concatenated in order are the column's ordered node list.    *)
C17_ChunksOfPerCol ==
    Placed =>
        /\ per_col = (usable_h + cfg.v_gap) \div (cfg.box_h + cfg.v_gap)
        /\ per_col < MinHeightPerCol
        /\ \A c \in ColumnIds :
              /\ ChunkSizesWithin(c, per_col)
              /\ \A k \in DOMAIN ColumnChunks(c) :
                    /\ ColumnChunks(c)[k] # <<>>
                    /\ k < Len(ColumnChunks(c)) => Len(ColumnChunks(c)[k]) = per_col
              /\ Concatenated(c)

(* a column of more than per_col nodes, in a full chunk and a shorter one *)
C17_Witness ==
    /\ Placed
    /\ \E c \in ColumnIds :
          /\ Len(ColumnChunks(c)) = 2
          /\ Len(ColumnChunks(c)[1]) = per_col
          /\ Len(ColumnChunks(c)[2]) \in 1..per_col - 1
          /\ Len(ColumnList(c)) > MinHeightPerCol

-----------------------------------------------------------------------------
(* total_columns: the number of chunks over all columns *)
TotalColumns == Len(AllChunks)

ScalingNeeded == NeededWidth(TotalColumns, DefaultCfg) > usable_w

(* v is int(v0 * scale) for the one factor scale = usable_w / needed_w *)
OneFactor(v, v0) == v = MulDiv(v0, usable_w, NeededWidth(TotalColumns, DefaultCfg))[1]

(* C18: when the required width of the chunks exceeds usable_w, box_w,      *)
(* h_gap and start_end_w of cfg are each the integer part of their default  *)
(* times the one factor usable_w / needed_w, the heights and v_gap of cfg   *)
(* keep their defaults, the required width computed from the scaled cfg is  *)
(* at most usable_w, and the right edge of every placed box is at most      *)
(* slide_width - margin_r; without the excess cfg keeps its defaults.       *)
C18_ScaledToFit ==
    Placed =>
        /\ cfg.box_h = box_h /\ cfg.box_h_min = box_h_min
        /\ cfg.start_end_h = start_end_h /\ cfg.v_gap = v_gap
        /\ IF ScalingNeeded
           THEN /\ OneFactor(cfg.box_w, box_w)
                /\ OneFactor(cfg.h_gap, h_gap)
                /\ OneFactor(cfg.start_end_w, start_end_w)
                /\ cfg.box_w < box_w
           ELSE cfg = DefaultCfg
        /\ NeededWidth(TotalColumns, cfg) <= usable_w
        /\ \A n \in DOMAIN shapes :
              /\ BoxRight(shapes[n]) <= slide_width - margin_r
              /\ BoxLeft(shapes[n]) >= margin_l
              /\ shapes[n][3] = (IF kind[n] = "start" THEN cfg.start_end_w ELSE cfg.box_w)

(* four chunks or more, among them a chunk with a start lozenge, scaled *)
C18_Witness ==
    /\ Placed
    /\ ScalingNeeded
    /\ TotalColumns >= 4
    /\ \E n \in DOMAIN shapes :
          kind[n] = "start" /\ BoxLeft(shapes[n]) > margin_l + cfg.box_w

-----------------------------------------------------------------------------
(* no node reaches itself along the edges *)
Acyclic == \A e \in EdgeIdx : Src(e) \notin ReachFrom({Dst(e)})

(* the positions <<c, i>> at which node n stands in the column lists *)
PositionsOf(n) ==
    {p \in (DOMAIN by_col) \X (1..Len(kind)) :
        p[2] <= Len(by_col[p[1]]) /\ by_col[p[1]][p[2]] = n}

RowOf(n) == (CHOOSE p \in PositionsOf(n) : TRUE)[2]

(* C19: for an acyclic graph order_within_columns puts every node in        *)
(* exactly one column list, at one position, the list of its assigned      *)
(* column, and for every edge u -> v whose ends share a column u stands    *)
(* before v in that list.                                                  *)
C19_ColumnsOrdered ==
    (Placed /\ Acyclic) =>
        /\ \A n \in DOMAIN kind :
              /\ Cardinality(PositionsOf(n)) = 1
              /\ \A p \in PositionsOf(n) : p[1] = columns[n]
        /\ \A c \in DOMAIN by_col : \A i \in 1..Len(by_col[c]) :
              by_col[c][i] \in DOMAIN kind
        /\ \A e \in EdgeIdx :
              (Dst(e) \in DOMAIN kind /\ columns[Src(e)] = columns[Dst(e)])
                  => RowOf(Src(e)) < RowOf(Dst(e))

(* an acyclic graph with an edge inside one column from a node declared    *)
(* later to a node declared earlier, and a second column                   *)
C19_Witness ==
    /\ Placed
    /\ Acyclic
    /\ \E e \in EdgeIdx :
          /\ Dst(e) \in DOMAIN kind
          /\ Src(e) > Dst(e)
          /\ columns[Src(e)] = columns[Dst(e)]
    /\ \E n \in DOMAIN kind : columns[n] # columns[1]

-----------------------------------------------------------------------------
(* C20: every edge with a non-empty label leaves a node whose stored kind   *)
(* is decision, after every sequence of schema lines, also when an id is    *)
(* declared by several node lines of different kinds.                       *)
C20_LabelledEdgesLeaveDecisions ==
    \A i \in 1..Len(edges) :
        edges[i][3] # "" =>
            /\ Declared(nodes, edges[i][1])
            /\ StoredKind(nodes, edges[i][1]) = "decision"

(* what the guard of the Path branch gives: a labelled edge is appended     *)
(* only while the last node line read is a Decision line for its source     *)
C20_PathUnderDecisionLine ==
    [][\A lbl \in PathLabels, dest \in 1..ParseIds :
          edges' = Append(edges, <<current_id, dest, lbl>>)
              => current_kind = "decision" /\ Declared(nodes, current_id)]_vars

-----------------------------------------------------------------------------
ZeroLength(s) == s.x1 = s.x2 /\ s.y1 = s.y2

(* the lanes the call registered *)
NewLanes == (used_h \ call.used_h) \cup (used_v \ call.used_v)

(* C29: whenever p1 differs from p2 the segment of the call that carries    *)
(* the arrowhead has non-zero length and no lane of zero length is          *)
(* registered, also when p1 and p2 are aligned horizontally or vertically.  *)
C29_NoZeroLengthSegment ==
    (pc = "routed" /\ call.p1 # call.p2) =>
        /\ \A i \in 1..Len(segs) : segs[i].end => ~ZeroLength(segs[i])
        /\ \A l \in NewLanes : l[2] < l[3]

(* p1 and p2 on one horizontal line with nothing in between: the first      *)
(* L-shape passes, its elbow is p2, and the arrowhead is on a segment from  *)
(* p2 to p2                                                                 *)
C29_ArrowOnPoint ==
    /\ pc = "routed"
    /\ call.p1 # call.p2
    /\ call.p1[2] = call.p2[2]
    /\ ret
    /\ Len(segs) = 2
    /\ segs[2].end /\ ZeroLength(segs[2])

-----------------------------------------------------------------------------
(* the segments of edge e that carry an arrowhead *)
ArrowSegs(e) == {i \in SegsOfEdge(e) : segs[i].end}

(* C28: the connector of every drawn edge carries exactly one arrowhead, on *)
(* its final segment, which ends at the attach point on the destination     *)
(* box; no earlier segment of the connector has one, also when the edge is  *)
(* routed through a shared arrival lane point.                              *)
C28_OneArrowhead ==
    \A e \in DrawnEdges :
        /\ Cardinality(ArrowSegs(e)) = 1
        /\ \A i \in ArrowSegs(e) : segs[i] = FinalSeg(e)
        /\ EntersAtLeft(e) \/ EntersAtTop(e)

(* an edge entering from the left with an arrowhead at the lane point and a *)
(* second one at the attach point                                          *)
C28_ArrowAtLanePoint ==
    \E e \in DrawnEdges :
        /\ EntersAtLeft(e)
        /\ Cardinality(ArrowSegs(e)) = 2
        /\ \E i \in ArrowSegs(e) :
              /\ SegEnd(segs[i]) = LanePoint(shapes[Dst(e)])
              /\ segs[i + 1] = FinalSeg(e)

-----------------------------------------------------------------------------
(* the last edge routed entered through the lane point of its destination *)
LastUsedLane == call.p2 = LanePoint(shapes[Dst(LastDrawn)])

Routed == pc = "edges" /\ LastDrawn >= 1

(* an edge routed before the last one to the same destination through its  *)
(* lane point                                                              *)
LaneAlreadyUsed ==
    \E f \in 1..LastDrawn - 1 : Dst(f) = Dst(LastDrawn) /\ EntersAtLeft(f)

(* C27: lane-conflict checking is off only for the second and later edges   *)
(* that reach a destination through its shared arrival lane; the first edge *)
(* routed to a destination and every edge that does not use a shared lane   *)
(* are routed with the lanes checked.                                       *)
C27_LanesIgnoredOnlyForLaterEdges ==
    (Routed /\ call.ignore_lanes) => (LastUsedLane /\ LaneAlreadyUsed)

(* what the code gives: the lanes are ignored exactly for the edges that    *)
(* use the lane point of a destination with two or more incoming edges in   *)
(* the whole edge list, the first such edge included                        *)
C27_LanesIgnoredByFanIn ==
    Routed =>
        (call.ignore_lanes <=>
            (LastUsedLane /\ Cardinality(InIdx(Dst(LastDrawn))) > 1))

(* the first edge drawn, routed with the lanes ignored *)
C27_FirstEdgeUnchecked ==
    /\ pc = "edges"
    /\ LastDrawn = 1
    /\ call.ignore_lanes

-----------------------------------------------------------------------------
(* The rectangle of a call of segment_hits_rect grown by the pad, and the   *)
(* segment of the call: its coordinate across its direction and its range   *)
(* along it; a segment with x1 = x2 counts as vertical, of length 0 too     *)
PadLeft == call.rect[1] - call.pad
PadTop == call.rect[2] - call.pad
PadRight == call.rect[1] + call.rect[3] + call.pad
PadBottom == call.rect[2] + call.rect[4] + call.pad

HitVertical == call.x1 = call.x2
HitHorizontal == call.x1 # call.x2 /\ call.y1 = call.y2
Across == IF HitVertical THEN call.x1 ELSE call.y1
AlongLo == IF HitVertical THEN Lo(call.y1, call.y2) ELSE Lo(call.x1, call.x2)
AlongHi == IF HitVertical THEN Hi(call.y1, call.y2) ELSE Hi(call.x1, call.x2)
NearSide == IF HitVertical THEN PadTop ELSE PadLeft
FarSide == IF HitVertical THEN PadBottom ELSE PadRight
WithinSpan ==
    IF HitVertical THEN PadLeft <= Across /\ Across <= PadRight
    ELSE PadTop <= Across /\ Across <= PadBottom

(* the segment and the closed padded rectangle have a point in common *)
SharesPoint == WithinSpan /\ AlongLo <= FarSide /\ NearSide <= AlongHi

(* C26 as claimed: a hit is reported exactly when the segment shares a      *)
(* point with the closed padded rectangle, a segment that only ends on the  *)
(* padded boundary included; a segment neither horizontal nor vertical      *)
(* always hits.                                                             *)
C26_HitIffSharesPoint ==
    pc = "hit_done" =>
        (ret <=> (IF HitVertical \/ HitHorizontal THEN SharesPoint ELSE TRUE))

(* C26: a hit is reported exactly when the segment lies within the closed   *)
(* padded span across its direction (flush along a padded side included)    *)
(* and its range along its direction reaches beyond the near padded side    *)
(* and starts before the far one; a segment that only ends on the near or   *)
(* far padded side is no hit; a segment neither horizontal nor vertical     *)
(* always hits.                                                             *)
C26_HitIffOverlapsRange ==
    pc = "hit_done" =>
        (ret <=> (IF HitVertical \/ HitHorizontal
                  THEN WithinSpan /\ AlongLo < FarSide /\ NearSide < AlongHi
                  ELSE TRUE))

(* a segment of positive length flush along a padded side, reported as a hit *)
C26_Witness ==
    /\ pc = "hit_done"
    /\ ret
    /\ call.pad > 0
    /\ AlongLo < AlongHi
    /\ HitVertical
    /\ Across = PadLeft

(* a segment of positive length ending on the padded boundary, no hit *)
C26_EndsOnBoundary ==
    /\ pc = "hit_done"
    /\ ~ret
    /\ HitVertical
    /\ WithinSpan
    /\ AlongLo < AlongHi
    /\ AlongHi = PadTop

-----------------------------------------------------------------------------
(* the candidate column edge e gives its destination, on the final columns *)
CandidateOf(e) == Candidate(kind, route_pref, Src(e), Dst(e), columns[Src(e)])

MaxCandidate(v) == MaxOf({CandidateOf(e) : e \in InIdx(v)})

-----------------------------------------------------------------------------
(* the orders of a list: s read through a permutation of its indices *)
Orders(s) ==
    {[i \in 1..Len(s) |-> s[p[i]]] :
        p \in {f \in [1..Len(s) -> 1..Len(s)] :
                  \A i, j \in 1..Len(s) : i # j => f[i] # f[j]}}

(* what assign_columns returns for the edges es and the start ids ss, the   *)
(* nodes and the preference map being those of the state                    *)
ColumnsFor(es, ss) ==
    LET st == RunLoop(AssignInit(kind, es, ss), kind, es, route_pref, MaxPops)
    IN IF st.err THEN "KeyError"
       ELSE IF st.q # <<>> THEN "looping"
       ELSE Normalize(st.col)

-----------------------------------------------------------------------------
(* render on the text of a linear chain.  The nodes are declared as 1..n in *)
(* the text, the chain visits them in any order: the node line of the first *)
(* is Start, of the last End or Action, of the others Action, and every     *)
(* node line but the last one's is followed by the Leads-to line to its     *)
(* successor.  The parser reads the lines, then the pipeline runs.          *)
ChainNodes == 4

LastKeywords == {"End", "Action"}

ChainOrders(n) == {p \in [1..n -> 1..n] : \A i, j \in 1..n : i # j => p[i] # p[j]}

(* the lines of the node at place j of the chain p *)
ChainBlock(p, j, lastkw) ==
    LET kw == IF j = 1 THEN "Start" ELSE IF j = Len(p) THEN lastkw ELSE "Action"
    IN <<<<"node", kw, p[j]>>>>
       \o (IF j < Len(p) THEN <<<<"leads", "", p[j + 1]>>>> ELSE <<>>)

(* the blocks of the nodes 1..k, in this order *)
RECURSIVE ChainText(_, _, _)
ChainText(p, k, lastkw) ==
    IF k = 0 THEN <<>>
    ELSE ChainText(p, k - 1, lastkw)
         \o ChainBlock(p, CHOOSE j \in 1..Len(p) : p[j] = k, lastkw)

InitChain ==
    /\ kind = <<>> /\ edges = <<>> /\ start_ids = <<>>
    /\ nodes = <<>> /\ current_id = None /\ current_kind = "none" /\ consumed = 0
    /\ \E n \in 1..ChainNodes : \E p \in ChainOrders(n) : \E lastkw \in LastKeywords :
          lines = ChainText(p, n, lastkw)
    /\ NoFlow
    /\ route_pref = {} /\ col = <<>> /\ q = <<>> /\ indeg = <<>> /\ iter = 0
    /\ columns = <<>>
    /\ pc = "parse"
    /\ NoDrawing

(* lines 195-210 on the next line of the text, a node line *)
ReadNode ==
    /\ pc = "parse"
    /\ consumed < Len(lines)
    /\ lines[consumed + 1][1] = "node"
    /\ LET k == KindOf(lines[consumed + 1][2])
           nid == lines[consumed + 1][3]
       IN /\ current_id' = nid
          /\ current_kind' = k
          /\ nodes' = Declare(nodes, nid, k)
          /\ start_ids' = IF k = "start" THEN Append(start_ids, nid) ELSE start_ids
    /\ consumed' = consumed + 1
    /\ UNCHANGED <<kind, edges, lines, flow, colvars, pc, drawing>>

(* lines 222-225 on the next line of the text, a Leads-to line *)
ReadLeads ==
    /\ pc = "parse"
    /\ consumed < Len(lines)
    /\ lines[consumed + 1][1] = "leads"
    /\ edges' = IF current_id # None
                THEN Append(edges, <<current_id, lines[consumed + 1][3], "">>)
                ELSE edges
    /\ consumed' = consumed + 1
    /\ UNCHANGED <<kind, start_ids, nodes, current_id, current_kind, lines, flow, colvars, pc,
                   drawing>>

(* line 232 and the call of render on what the parser returned *)
ReadReturn ==
    /\ pc = "parse"
    /\ consumed = Len(lines)
    /\ kind' = [i \in 1..Len(nodes) |-> StoredKind(nodes, i)]
    /\ pc' = "plan"
    /\ UNCHANGED <<edges, start_ids, parser, colvars, drawing>>

NextChain == ReadNode \/ ReadLeads \/ ReadReturn \/ Plan \/ Assign \/ Place \/ DrawEdge \/ Finish

SpecChain == InitChain /\ [][NextChain]_vars

LeadsToLines == {i \in 1..Len(lines) : lines[i][1] = "leads"}

FirstSeg(e) == segs[CHOOSE i \in SegsOfEdge(e) : \A j \in SegsOfEdge(e) : i <= j]

(* every connector of e lies on the vertical line through the bottom middle *)
(* of the source, the first starts there, the last ends with the arrowhead  *)
(* at the top middle of the destination                                     *)
DrawnDown(e) ==
    /\ SegStart(FirstSeg(e)) = mid_bottom(shapes[Src(e)])
    /\ SegEnd(FinalSeg(e)) = mid_top(shapes[Dst(e)])
    /\ FinalSeg(e).end
    /\ \A i \in SegsOfEdge(e) :
          /\ Vertical(segs[i])
          /\ segs[i].x1 = mid_bottom(shapes[Src(e)])[1]

(* C22: the text of a linear chain without decisions that fits one chunk is *)
(* laid out with every node in column 0, has as many edges as Leads-to      *)
(* lines, does not take the early return of the empty graph, and every edge *)
(* is drawn from the bottom middle of its source straight down to the top   *)
(* middle of its destination.                                               *)
C22_ChainDrawnDown ==
    /\ pc \notin {"KeyError", "looping"}
    /\ pc = "assigned" =>
          /\ columns # <<>>
          /\ \A n \in DOMAIN kind : columns[n] = 0
    /\ pc \in {"plan", "assign", "assigned", "edges", "returned"} =>
          Len(edges) = Cardinality(LeadsToLines)
    /\ (pc \in {"edges", "returned"} /\ Len(kind) <= per_col) =>
          /\ Len(fixed_order_cols[1]) = 1
          /\ \A e \in 1..LastDrawn : e \in DrawnEdges /\ DrawnDown(e)
    /\ pc = "returned" => LastDrawn = Len(edges) /\ ~printed /\ saved

(* a chain of four nodes that ends with End, declared out of chain order,   *)
(* all of its edges drawn                                                   *)
C22_Witness ==
    /\ pc = "returned"
    /\ Len(kind) = ChainNodes
    /\ Len(edges) = ChainNodes - 1
    /\ \E n \in DOMAIN kind : kind[n] = "end"
    /\ kind[1] # "start"
    /\ DrawnEdges = 1..Len(edges)
    /\ \A e \in DrawnEdges : DrawnDown(e)

-----------------------------------------------------------------------------
(* _wrap_lines on its own.  A string is a sequence of characters; the font  *)
(* gives every character an advance width in pixels and the length of a     *)
(* string is the sum of the widths of its characters.                       *)
MaxText == 5
MaxPx == 4

Chars == {"a", "W", " ", "-"}

(* font.getlength of one character: a wide letter, the others one pixel *)
CharWidth(ch) == IF ch = "W" THEN 2 ELSE 1

(* font.getlength(s) *)
RECURSIVE getlength(_)
getlength(s) == IF s = <<>> THEN 0 ELSE CharWidth(Head(s)) + getlength(Tail(s))

(* str.split(): the maximal runs of characters other than whitespace *)
RECURSIVE SplitFrom(_, _, _)
SplitFrom(s, word, out) ==
    IF s = <<>> THEN (IF word # <<>> THEN Append(out, word) ELSE out)
    ELSE IF Head(s) = " "
         THEN SplitFrom(Tail(s), <<>>, IF word # <<>> THEN Append(out, word) ELSE out)
         ELSE SplitFrom(Tail(s), Append(word, Head(s)), out)

split(s) == SplitFrom(s, <<>>, <<>>)

(* raw.replace('/', ' / ').replace('-', ' - ') *)
RECURSIVE Separated(_)
Separated(raw) ==
    IF raw = <<>> THEN <<>>
    ELSE (IF Head(raw) \in {"/", "-"} THEN <<" ", Head(raw), " ">> ELSE <<Head(raw)>>)
         \o Separated(Tail(raw))

(* lines 623-630: the tokens of the text *)
RECURSIVE TokensOf(_)
TokensOf(raws) ==
    IF raws = <<>> THEN <<>>
    ELSE split(Separated(Head(raws))) \o TokensOf(Tail(raws))

(* lines 648-657: the token t broken at character level *)
RECURSIVE BreakChars(_, _, _, _)
BreakChars(t, piece, ls, max_px) ==
    IF t = <<>> THEN [lines |-> ls, piece |-> piece]
    ELSE LET nxt == Append(piece, Head(t))
         IN IF getlength(nxt) <= max_px
            THEN BreakChars(Tail(t), nxt, ls, max_px)
            ELSE BreakChars(Tail(t), <<Head(t)>>,
                            IF piece # <<>> THEN Append(ls, piece) ELSE ls, max_px)

(* line 643: font.getlength(t) > max_px *)
TooWide(t, max_px) == getlength(t) > max_px

(* lines 637-662: the loop over tokens[1:] and the last line *)
RECURSIVE WrapTokens(_, _, _, _)
WrapTokens(ts, cur, ls, max_px) ==
    IF ts = <<>> THEN (IF cur # <<>> THEN Append(ls, cur) ELSE ls)
    ELSE LET t == Head(ts)
             trial == cur \o <<" ">> \o t
         IN IF getlength(trial) <= max_px
            THEN WrapTokens(Tail(ts), trial, ls, max_px)
            ELSE IF TooWide(t, max_px)
            THEN LET b == BreakChars(t, <<>>,
                                     IF cur # <<>> THEN Append(ls, cur) ELSE ls, max_px)
                 IN WrapTokens(Tail(ts), b.piece, b.lines, max_px)
            ELSE WrapTokens(Tail(ts), t, Append(ls, cur), max_px)

(* _wrap_lines(text, font, max_px) *)
wrap_lines(txt, max_px) ==
    LET tokens == TokensOf(split(txt))
    IN IF tokens = <<>> THEN << <<>> >>
       ELSE WrapTokens(Tail(tokens), Head(tokens), <<>>, max_px)

TextsUpTo(n) == UNION {[1..k -> Chars] : k \in 0..n}

InitWrap ==
    /\ kind = <<>> /\ edges = <<>> /\ start_ids = <<>>
    /\ NoParse
    /\ route_pref = {} /\ col = <<>> /\ q = <<>> /\ indeg = <<>> /\ iter = 0
    /\ columns = <<>>
    /\ pc = "wrap"
    /\ by_col = <<>> /\ fixed_order_cols = <<>> /\ cfg = DefaultCfg
    /\ shapes = <<>> /\ segs = <<>> /\ dest_entry_lane = {} /\ ei = 0
    /\ used_h = {} /\ used_v = {}
    /\ ret = <<>> /\ printed = FALSE /\ saved = FALSE /\ result = "none"
    /\ \E txt \in TextsUpTo(MaxText), max_px \in 1..MaxPx :
          call = [text |-> txt, max_px |-> max_px]

Wrap ==
    /\ pc = "wrap"
    /\ ret' = wrap_lines(call.text, call.max_px)
    /\ pc' = "wrapped"
    /\ UNCHANGED <<schema, parser, colvars, layout, shapes, used_h, used_v, segs,
                   dest_entry_lane, ei, call, printed, saved, result>>

NextWrap == Wrap

SpecWrap == InitWrap /\ [][NextWrap]_vars

(* every single character of the text fits the width *)
EveryCharFits ==
    \A i \in 1..Len(call.text) : CharWidth(call.text[i]) <= call.max_px

(* the characters of the strings of ss other than whitespace, in order *)
RECURSIVE Letters(_)
Letters(ss) ==
    IF ss = <<>> THEN <<>>
    ELSE SelectSeq(Head(ss), LAMBDA ch : ch # " ") \o Letters(Tail(ss))

(* C21: when every single character fits, no line that _wrap_lines emits    *)
(* is wider than max_px: a token wider than max_px is broken at character   *)
(* level, the first token of the text included.                             *)
C21_NoLineTooWide ==
    (pc = "wrapped" /\ EveryCharFits) =>
        \A i \in 1..Len(ret) : getlength(ret[i]) <= call.max_px

(* the same for texts whose first token fits *)
C21_NoLineTooWideAfterFirst ==
    (pc = "wrapped" /\ EveryCharFits
       /\ \A ts \in {TokensOf(split(call.text))} :
             ts # <<>> => getlength(Head(ts)) <= call.max_px) =>
        \A i \in 1..Len(ret) : getlength(ret[i]) <= call.max_px

(* the lines hold the characters of the tokens, all of them and in order *)
C21_CharactersKept ==
    pc = "wrapped" => Letters(ret) = Letters(<<call.text>>)

-----------------------------------------------------------------------------
(* A second run of render on the schema of the state, from plan_decision_   *)
(* routes to the loop over the edges, computed from kind, edges and         *)
(* start_ids alone.                                                         *)

AgainRoutePref == plan_decision_routes(kind, edges)

AgainColumns ==
    Normalize(RunLoop(AssignInit(kind, edges, start_ids), kind, edges,
                      AgainRoutePref, MaxPops).col)

AgainByCol == order_within_columns(kind, edges, AgainColumns)

AgainChunks == FixedOrderCols(AgainByCol, MaxColumn(AgainColumns))

AgainShapes == PlaceNodes(kind, edges, AgainRoutePref, AgainColumns)

(* lines 741-796 for the edge at index i, on the drawing d of the edges     *)
(* before it, with the shapes sh and the preferences rp                     *)
AgainEdge(d, i, sh, rp) ==
    LET u == edges[i][1]
        v == edges[i][2]
        su == sh[u]
        sv == sh[v]
        left == EntersLeft(PrefOf(rp, u, v), su, sv)
        lane == EntryLane(d.dest_entry_lane, v, sv)
        p1 == IF left THEN mid_right(su) ELSE mid_bottom(su)
        p2 == IF left THEN lane[2] ELSE mid_top(sv)
        target == IF left THEN lane[3] ELSE p2
        allow_share == Cardinality({j \in 1..Len(edges) : edges[j][2] = v}) > 1
        dr0 == [segs |-> d.segs, used_h |-> d.used_h, used_v |-> d.used_v,
                edge |-> i, arrival |-> FALSE]
        r == route_orthogonal_detour(dr0, p1, target,
                                     {sh[n] : n \in DOMAIN sh},
                                     {su, sv}, left /\ allow_share)
        dr == IF left
              THEN add_seg_registered([r.dr EXCEPT !.arrival = TRUE],
                                      target[1], target[2], p2[1], p2[2], TRUE)
              ELSE r.dr
    IN [segs |-> dr.segs, used_h |-> dr.used_h, used_v |-> dr.used_v,
        dest_entry_lane |-> IF left THEN d.dest_entry_lane \cup {lane}
                            ELSE d.dest_entry_lane]

(* the drawing after the first k edges *)
RECURSIVE AgainEdges(_, _, _)
AgainEdges(k, sh, rp) ==
    IF k = 0 THEN [segs |-> <<>>, used_h |-> {}, used_v |-> {}, dest_entry_lane |-> {}]
    ELSE AgainEdge(AgainEdges(k - 1, sh, rp), k, sh, rp)

-----------------------------------------------------------------------------
(* The bullet-list engine of build_slide_flexible.py: parse_bullets_to_     *)
(* human_flow, to_flow_spec and generate_nodes_connectors_from_flow_        *)
(* flexible.  A line of the bullet text is its indent and its content: a    *)
(* step `type: text` or a `Path "label":` line, whose label is in text.     *)
(* An object that may be None is a sequence of length 0 or 1.               *)
MaxBullets == 4

BulletTypes == {"Start", "Action", "Decision", "End"}
BulletTexts == {"", "END"}
BranchTypes == {"Action"}

BulletLines ==
    {[indent |-> 0, form |-> "step", type |-> t, text |-> x] :
        t \in BulletTypes, x \in BulletTexts}
    \cup {[indent |-> 2, form |-> "path", type |-> "Path", text |-> "a"]}
    \cup {[indent |-> 4, form |-> "step", type |-> t, text |-> x] :
        t \in BranchTypes, x \in BulletTexts}

(* str.lower() on the types that occur *)
Lower(t) ==
    CASE t = "Start" -> "start"
      [] t = "Action" -> "action"
      [] t = "Decision" -> "decision"
      [] t = "End" -> "end"
      [] OTHER -> t

(* content.split(":", 1): what is before and after the first colon *)
BeforeColon(l) == IF l.form = "path" THEN <<"Path", l.text>> ELSE l.type
AfterColon(l) == IF l.form = "path" THEN "" ELSE l.text

(* lines 190-195: the index of the first line from i on that is not         *)
(* indented deeper than indent3                                             *)
RECURSIVE Deeper(_, _, _)
Deeper(ls, i, indent3) ==
    IF i > Len(ls) \/ ls[i].indent <= indent3 THEN i ELSE Deeper(ls, i + 1, indent3)

(* lines 161-200: the steps under a Path line of indent indent2 *)
RECURSIVE BranchSteps(_, _, _, _)
BranchSteps(ls, i, indent2, steps) ==
    IF i > Len(ls) \/ ls[i].indent <= indent2 THEN [i |-> i, steps |-> steps]
    ELSE IF AfterColon(ls[i]) # ""
    THEN BranchSteps(ls, i + 1, indent2,
                     Append(steps, [type |-> BeforeColon(ls[i]),
                                    text |-> <<AfterColon(ls[i])>>]))
    ELSE LET j == Deeper(ls, i + 1, ls[i].indent)
             text_lines == [k \in 1..(j - i - 1) |->
                               <<BeforeColon(ls[i + k]), AfterColon(ls[i + k])>>]
         IN BranchSteps(ls, j, indent2,
                        Append(steps, [type |-> BeforeColon(ls[i]),
                                       text |-> IF text_lines # <<>> THEN text_lines
                                                ELSE <<BeforeColon(ls[i])>>]))

(* lines 137-212: the Path blocks under a Decision *)
RECURSIVE DecisionPaths(_, _, _)
DecisionPaths(ls, i, paths) ==
    IF i > Len(ls) \/ ls[i].indent = 0 THEN [err |-> FALSE, i |-> i, paths |-> paths]
    ELSE IF ls[i].form = "path"
    THEN LET r == BranchSteps(ls, i + 1, ls[i].indent, <<>>)
         IN DecisionPaths(ls, r.i, Append(paths, [label |-> ls[i].text,
                                                  steps |-> r.steps]))
    ELSE [err |-> TRUE, i |-> i, paths |-> paths]

(* lines 115-229: the loop over the top level, ValueError as err *)
RECURSIVE SpineNodes(_, _, _)
SpineNodes(ls, i, spine_nodes) ==
    IF i > Len(ls) THEN [err |-> FALSE, spine_nodes |-> spine_nodes]
    ELSE IF ls[i].indent = 0 /\ ls[i].form # "path"
    THEN LET node_entry == [type |-> ls[i].type,
                            text |-> IF ls[i].text # "" THEN <<ls[i].text>>
                                     ELSE <<ls[i].type>>,
                            paths |-> <<>>]
         IN IF Lower(ls[i].type) = "decision"
            THEN LET r == DecisionPaths(ls, i + 1, <<>>)
                 IN IF r.err THEN [err |-> TRUE, spine_nodes |-> <<>>]
                    ELSE SpineNodes(ls, r.i,
                                    Append(spine_nodes,
                                           [node_entry EXCEPT !.paths = r.paths]))
            ELSE SpineNodes(ls, i + 1, Append(spine_nodes, node_entry))
    ELSE [err |-> TRUE, spine_nodes |-> <<>>]

(* lines 232-245 *)
RECURSIVE chainify(_)
chainify(nodes_list) ==
    IF nodes_list = <<>> THEN <<>>
    ELSE <<[type |-> Head(nodes_list).type, text |-> Head(nodes_list).text,
            paths |-> Head(nodes_list).paths,
            children |-> chainify(Tail(nodes_list))]>>

(* lines 253-274; "paths" of a spec is its next spec and its branches *)
RECURSIVE linear_chain_to_spec(_)
linear_chain_to_spec(steps) ==
    IF steps = <<>> THEN <<>>
    ELSE <<[type |-> Head(steps).type, text |-> Head(steps).text,
            next |-> linear_chain_to_spec(Tail(steps)), branches |-> <<>>]>>

(* lines 277-296: the branch at index idx is the one of key path{idx} *)
decision_paths_to_spec(decision_node) ==
    [idx \in 1..Len(decision_node.paths) |->
        [label |-> decision_node.paths[idx].label,
         node |-> linear_chain_to_spec(decision_node.paths[idx].steps)]]

(* lines 299-313 *)
RECURSIVE to_flow_spec(_)
to_flow_spec(hf) ==
    IF Lower(hf.type) = "decision"
    THEN [type |-> hf.type, text |-> hf.text, next |-> <<>>,
          branches |-> decision_paths_to_spec(hf)]
    ELSE [type |-> hf.type, text |-> hf.text,
          next |-> IF hf.children # <<>> THEN <<to_flow_spec(hf.children[1])>>
                   ELSE <<>>,
          branches |-> <<>>]

(* the specs that build_spine and the loop of place_branch walk through *)
RECURSIVE AlongNext(_)
AlongNext(spec) ==
    <<spec>> \o (IF spec.next # <<>> THEN AlongNext(spec.next[1]) ELSE <<>>)

(* the node appended for a spec, the counter being at n *)
NodeOf(spec, n) == [id |-> <<Lower(spec.type), n>>, type |-> spec.type,
                    lines |-> spec.text]

(* lines 643-648: the last spec of the given type on the spine, 0 if none *)
LastOfType(chain, t) ==
    IF \E i \in 1..Len(chain) : chain[i].type = t
    THEN CHOOSE i \in 1..Len(chain) :
            chain[i].type = t /\ \A j \in i + 1..Len(chain) : chain[j].type # t
    ELSE 0

(* lines 702-802 and 811-837: the branches path1..path3 from index k on;   *)
(* a Path without steps has node None and raises TypeError                  *)
RECURSIVE PlaceBranches(_, _, _, _, _)
PlaceBranches(g, branches, k, decision_id, end_id) ==
    IF k > Len(branches) \/ k > 3 \/ g.err THEN g
    ELSE IF branches[k].node = <<>> THEN [g EXCEPT !.err = TRUE]
    ELSE LET chain == AlongNext(branches[k].node[1])
             base == Len(g.nodes)
             added == [i \in 1..Len(chain) |-> NodeOf(chain[i], base + i)]
             links == [i \in 1..Len(chain) |->
                         [from_id |-> IF i = 1 THEN decision_id ELSE added[i - 1].id,
                          to_id |-> added[i].id,
                          label |-> IF i = 1 THEN branches[k].label ELSE ""]]
         IN PlaceBranches([err |-> FALSE, nodes |-> g.nodes \o added,
                           connectors |-> g.connectors \o links,
                           last_ids |-> Append(g.last_ids, added[Len(chain)].id)],
                          branches, k + 1, decision_id, end_id)

(* lines 567-846: the nodes and connectors, TypeError as err *)
generate_nodes_connectors_from_flow_flexible(fs) ==
    LET spine_chain == AlongNext(fs)
        n == Len(spine_chain)
        spine == [i \in 1..n |-> NodeOf(spine_chain[i], i)]
        d == LastOfType(spine_chain, "Decision")
        e == LastOfType(spine_chain, "End")
        with_end == IF e # 0 THEN spine
                    ELSE Append(spine, [id |-> <<"end", n + 1>>, type |-> "End",
                                        lines |-> <<"END">>])
        end_id == IF e # 0 THEN spine[e].id ELSE <<"end", n + 1>>
        arrows == [i \in 1..n - 1 |-> [from_id |-> spine[i].id,
                                        to_id |-> spine[i + 1].id, label |-> ""]]
        kept == SelectSeq(arrows, LAMBDA c : ~(c.from_id[1] = "decision"
                                               /\ c.to_id[1] = "end"))
        g0 == [err |-> FALSE, nodes |-> with_end, connectors |-> kept,
               last_ids |-> <<>>]
    IN IF d = 0 THEN g0
       ELSE LET g == PlaceBranches(g0, spine_chain[d].branches, 1, spine[d].id, end_id)
            IN [g EXCEPT !.connectors =
                   g.connectors \o [i \in 1..Len(g.last_ids) |->
                                       [from_id |-> g.last_ids[i], to_id |-> end_id,
                                        label |-> ""]]]

InitFlow ==
    /\ kind = <<>> /\ edges = <<>> /\ start_ids = <<>>
    /\ nodes = <<>> /\ current_id = None /\ current_kind = "none" /\ consumed = 0
    /\ \E n \in 0..MaxBullets : lines \in [1..n -> BulletLines]
    /\ NoFlow
    /\ route_pref = {} /\ col = <<>> /\ q = <<>> /\ indeg = <<>> /\ iter = 0
    /\ columns = <<>>
    /\ pc = "bullets"
    /\ NoDrawing

(* human_flow = parse_bullets_to_human_flow(BULLET_TEXT) *)
ParseBullets ==
    /\ pc = "bullets"
    /\ LET r == SpineNodes(lines, 1, <<>>)
       IN IF r.err THEN pc' = "ValueError" /\ human_flow' = <<>>
          ELSE pc' = "human_flow" /\ human_flow' = chainify(r.spine_nodes)
    /\ UNCHANGED <<schema, nodes, current_id, current_kind, consumed, lines, flow_spec,
                   connectors, colvars, drawing>>

(* flow_spec = to_flow_spec(human_flow); human_flow["type"] of None raises *)
ToFlowSpec ==
    /\ pc = "human_flow"
    /\ IF human_flow = <<>> THEN pc' = "TypeError" /\ flow_spec' = <<>>
       ELSE pc' = "flow_spec" /\ flow_spec' = <<to_flow_spec(human_flow[1])>>
    /\ UNCHANGED <<schema, nodes, current_id, current_kind, consumed, lines, human_flow,
                   connectors, colvars, drawing>>

(* nodes, connectors = generate_nodes_connectors_from_flow_flexible(flow_spec) *)
Generate ==
    /\ pc = "flow_spec"
    /\ LET g == generate_nodes_connectors_from_flow_flexible(flow_spec[1])
       IN IF g.err THEN pc' = "TypeError" /\ UNCHANGED <<nodes, connectors>>
          ELSE /\ pc' = "generated"
               /\ nodes' = g.nodes
               /\ connectors' = g.connectors
    /\ UNCHANGED <<schema, current_id, current_kind, consumed, lines, human_flow,
                   flow_spec, colvars, drawing>>

NextFlow == ParseBullets \/ ToFlowSpec \/ Generate

SpecFlow == InitFlow /\ [][NextFlow]_vars

(* the top-level steps of the bullet text: type and text as line 128-131    *)
(* store them                                                               *)
TopLevelSteps ==
    [i \in 1..Len(SelectSeq(lines, LAMBDA l : l.indent = 0)) |->
        LET l == SelectSeq(lines, LAMBDA x : x.indent = 0)[i]
        IN <<l.type, IF l.text # "" THEN <<l.text>> ELSE <<l.type>>>>]

GeneratedNodes == [i \in 1..Len(nodes) |-> <<nodes[i].type, nodes[i].lines>>]

Count(s, x) == Cardinality({i \in 1..Len(s) : s[i] = x})

(* C30: every top-level step of the bullet text has its own node of its     *)
(* type and text in the generated node list, the steps that follow a        *)
(* Decision included: no step is dropped or replaced.                       *)
C30_TopLevelStepsKept ==
    pc = "generated" =>
        \A i \in 1..Len(TopLevelSteps) :
            Count(GeneratedNodes, TopLevelSteps[i]) >= Count(TopLevelSteps, TopLevelSteps[i])

(* the same for texts in which no top-level step follows a Decision *)
C30_StepsUpToDecisionKept ==
    (pc = "generated"
       /\ \A i \in 1..Len(TopLevelSteps) - 1 : TopLevelSteps[i][1] # "Decision") =>
        \A i \in 1..Len(TopLevelSteps) :
            Count(GeneratedNodes, TopLevelSteps[i]) >= Count(TopLevelSteps, TopLevelSteps[i])

====
